---- MODULE Spec2Model ----
(***************************************************************************)
(* Replication engine of vaultwarden-syncer: the job ledger, the single    *)
(* target sync (SyncToStorage), the fan-out sync                           *)
(* (ConcurrentSyncToStorages / syncToStorageWithBackup), the upload retry  *)
(* loop (uploadWithBackoff / uploadWithResume), restore                    *)
(* (RestoreFromStorage) and the retention cleaner (CleanupOldSyncJobs).    *)
(*                                                                         *)
(* Every ledger statement (ent Save / Exec / Get) and every storage driver *)
(* call is one atomic step; the Go statements between two such calls are   *)
(* local to the goroutine and are folded into the step that precedes them. *)
(***************************************************************************)
EXTENDS Integers, Sequences, FiniteSets, TLC

(***************************************************************************)
(* Bounds of the model.                                                    *)
(***************************************************************************)
\* largest sync.max_retries tried (Service.maxRetries, SetRetryConfig)
MaxRetries == 1
\* longest storageIDs list handed to ConcurrentSyncToStorages
NumTargets == 2
\* largest sync.concurrency tried (Service.concurrency, SetConcurrency)
MaxConcurrency == 2
\* the clock runs up to MaxNow
MaxNow == 2
\* rows of the ledger a retention pass may find (ids 1..MaxJobs)
MaxJobs == 3
\* batchSize of CleanupOldSyncJobs (1000 in the source, scaled to the ledger
\* sizes of the model)
batchSize == 2

(***************************************************************************)
(* Values.                                                                 *)
(***************************************************************************)
\* zero value of an unset optional time column / of "no job"
None == -1

\* the bytes io.ReadAll obtains from a fresh reader returned by CreateBackup
Archive == <<1, 2>>

\* no file name yet
NoFile == <<"", None, "">>

\* storage rows of the admin database: Storage.Get(id) answers from this table
\* (id 0 is never allocated by the auto-increment key, so it is an absent row)
StorageTable ==
  [id \in 1..5 |->
     CASE id = 1 -> [type |-> "webdav", enabled |-> TRUE,  configOk |-> TRUE]
       [] id = 2 -> [type |-> "s3",     enabled |-> TRUE,  configOk |-> TRUE]
       [] id = 3 -> [type |-> "webdav", enabled |-> FALSE, configOk |-> TRUE]
       [] id = 4 -> [type |-> "s3",     enabled |-> TRUE,  configOk |-> FALSE]
       [] id = 5 -> [type |-> "webdav", enabled |-> TRUE,  configOk |-> TRUE]]

StorageIDs == DOMAIN StorageTable
AbsentID == 0

VARIABLES
  now,        \* time.Now(), in clock ticks
  cancelled,  \* cancelled[c]: ctx.Done() of the context of call c is closed
  storages,   \* the storage table
  jobs,       \* the ledger: job id -> SyncJob row
  nextId,     \* next auto-increment id of the sync_jobs table
  store,      \* store[s]: the objects of the remote of storage s, name -> bytes
  reader,     \* reader[c]: read offset of the bytes.Reader of call c, None = nil reader
  config,     \* the configuration snapshot: maxRetries, concurrency, password,
              \* retention_days, interval
  proc,       \* proc[p]: locals of the goroutine p
  fan,        \* locals of ConcurrentSyncToStorages: storageIDs, semaphore, wg, errChan
  active,     \* the operations the admin handlers and the scheduler invoke
  clean,      \* clean[c]: locals of the retention pass c
  bk,         \* the backup service at work on one archive: data directory,
              \* archive bytes, destination directory
  sch,        \* the scheduler: its two loops, its timers, the stop signal
  drv,        \* the last call of a storage driver: its arguments, the answer
              \* of the remote and its result
  db          \* the configuration sub-records of the storages, the id
              \* counters of the storage tables, the last handler response

vars == <<now, cancelled, storages, jobs, nextId, store, reader, config, proc, fan,
          active, clean, bk, sch, drv, db>>

(***************************************************************************)
(* Helpers translated from the source.                                     *)
(***************************************************************************)

\* backup.Service.CreateBackup: the file name for time t
BackupFilename(t, pw) ==
  IF pw # "" THEN <<"vaultwarden-backup", t, "enc">>
                   ELSE <<"vaultwarden-backup", t, "zip">>

\* backup.go 47-49 and 68-71: the error of CreateBackup when the walk of the
\* data directory fails; filepath.Walk hands the callback the lstat error of
\* a root that does not exist, and the callback returns it as it is
CreateBackupError(missing) ==
  <<"failed to create zip archive",
    IF missing THEN "no such file or directory" ELSE "input/output error">>

\* backup.Service.GetDataInfo walks the data directory: the walk of a
\* directory that does not exist fails, any other walk may fail
GetDataInfoOutcomes(missing) == IF missing THEN {FALSE} ELSE BOOLEAN

\* sync.Service.checkExistingBackup: the file name it looks for at time t
CheckFilename(t) == <<"vaultwarden-backup", t, "zip">>

\* The outcomes of a ledger statement executed with context c: database/sql
\* refuses a statement whose context is done; otherwise it succeeds or fails
\* (locked database, I/O error).
SaveOutcomes(c) == IF cancelled[c] THEN {FALSE} ELSE {TRUE, FALSE}

\* A ledger whose status update stamps completed_at but never started_at.
updateJobStatus_NoStart(js, jobID, status, message, t) ==
  [js EXCEPT ![jobID] =
     [@ EXCEPT !.status = status, !.message = message,
               !.completed_at = IF status \in {"completed", "failed"}
                                THEN t ELSE @]]

\* sync.Service.updateJobStatus, the row written when Save succeeds
\* (sync.go:403-414): started_at on every update to running, completed_at
\* on every update to completed or failed.
updateJobStatus(js, jobID, status, message, t) ==
  [js EXCEPT ![jobID] =
     [@ EXCEPT !.status = status,
               !.message = message,
               !.started_at = IF status = "running" THEN t ELSE @,
               !.completed_at =
                  IF status \in {"completed", "failed"} THEN t ELSE @]]

\* SyncJob.Create().SetStatus(pending).SetOperation(op).SetStorageID(id)
NewJob(storageID, operation, t) ==
  [storage |-> storageID, operation |-> operation, status |-> "pending",
   message |-> <<"", "">>, started_at |-> None, completed_at |-> None,
   created_at |-> t]

\* the locals of a goroutine that is not running
IdleProc ==
  [pc |-> "idle", storageID |-> AbsentID, job |-> None, filename |-> NoFile,
   i |-> 0, lastErr |-> "", err |-> <<"", "">>, ret |-> <<"none", "">>,
   data |-> <<>>, off |-> 0, attempts |-> 0, calls |-> 0, builds |-> 0]

\* goroutines started by ConcurrentSyncToStorages, one per list position
WorkerNames == <<"w1", "w2", "w3", "w4">>
Workers == {WorkerNames[k] : k \in 1..NumTargets}

\* the context a goroutine runs under: a worker runs under the context of
\* the ConcurrentSyncToStorages call
Ctx(p) == IF p \in Workers THEN "many" ELSE p

\* Mutant: the loop runs while i < s.maxRetries.
LoopHead_OffByOne(i) ==
  IF i >= config.maxRetries THEN "uploadFailed"
  ELSE IF i > 0 THEN "retryUpd" ELSE "probe"

\* head of `for i := 0; i <= s.maxRetries; i++` in uploadWithBackoff
LoopHead(i) ==
  IF i > config.maxRetries THEN "uploadFailed"
  ELSE IF i > 0 THEN "retryUpd" ELSE "probe"

\* The outcomes of a storage driver call on a remote of the given type under
\* context c: the S3 client refuses a request whose context is done, the
\* WebDAV client takes no context; otherwise the remote answers or fails.
DriverOutcomes(type, c) ==
  IF type = "s3" /\ cancelled[c] THEN {FALSE} ELSE {TRUE, FALSE}

Set(p, rec) == proc' = [proc EXCEPT ![p] = rec]

\* `return err` of a call: the goroutine is finished with result r
Return(p, r) == Set(p, [proc[p] EXCEPT !.pc = "done", !.ret = r])

TypeOf(p) == storages[proc[p].storageID].type

(***************************************************************************)
(* SyncToStorage (sync_one), goroutine "one".                              *)
(***************************************************************************)

\* Mutant: the enabled flag of the storage is not looked at.
SyncToStorage_Get_NoEnabledCheck(storageID) ==
  /\ "one" \in active
  /\ proc["one"].pc = "idle"
  /\ \E ok \in SaveOutcomes("one") :
       IF ~ok \/ storageID \notin DOMAIN storages
       THEN Set("one", [IdleProc EXCEPT !.pc = "done", !.storageID = storageID,
                                        !.ret = <<"failed to get storage", "">>])
       ELSE Set("one", [IdleProc EXCEPT !.pc = "create", !.storageID = storageID])
  /\ reader' = [reader EXCEPT !["one"] = None]
  /\ UNCHANGED <<now, cancelled, storages, jobs, nextId, store, config, fan, active, clean, bk, sch, drv,
                 db>>

\* lines 58-65: a call of SyncToStorage(ctx, storageID);
\* Storage.Get and the enabled check
SyncToStorage_Get(storageID) ==
  /\ "one" \in active
  /\ proc["one"].pc = "idle"
  /\ \E ok \in SaveOutcomes("one") :
       IF ~ok \/ storageID \notin DOMAIN storages
       THEN Set("one", [IdleProc EXCEPT !.pc = "done", !.storageID = storageID,
                                        !.ret = <<"failed to get storage", "">>])
       ELSE IF ~storages[storageID].enabled
       THEN Set("one", [IdleProc EXCEPT !.pc = "done", !.storageID = storageID,
                                        !.ret = <<"storage is disabled", "">>])
       ELSE Set("one", [IdleProc EXCEPT !.pc = "create", !.storageID = storageID])
  /\ reader' = [reader EXCEPT !["one"] = None]
  /\ UNCHANGED <<now, cancelled, storages, jobs, nextId, store, config, fan, active, clean, bk, sch, drv,
                 db>>

\* a SyncJob.Create()...Save(ctx) of goroutine p (sync.go 67-76, 192-201, 329-338)
CreateJob(p, operation) ==
  /\ proc[p].pc = "create"
  /\ \E ok \in SaveOutcomes(Ctx(p)) :
       IF ok
       THEN /\ jobs' = (nextId :> NewJob(proc[p].storageID, operation, now)) @@ jobs
            /\ nextId' = nextId + 1
            /\ Set(p, [proc[p] EXCEPT !.pc = "markRunning", !.job = nextId])
       ELSE /\ Return(p, <<"failed to create sync job", "">>)
            /\ UNCHANGED <<jobs, nextId>>
  /\ UNCHANGED <<now, cancelled, storages, store, reader, config, fan, active, clean, bk, sch, drv, db>>

\* lines 67-76
SyncToStorage_Create == CreateJob("one", "backup")

\* lines 78-82: updateJobStatus(Running, "Creating backup..."), then
\* createStorageProvider (local)
SyncToStorage_MarkRunning ==
  /\ proc["one"].pc = "markRunning"
  /\ \E ok \in SaveOutcomes("one") :
       IF ok /\ proc["one"].job \in DOMAIN jobs
       THEN /\ jobs' = updateJobStatus(jobs, proc["one"].job, "running",
                                       <<"Creating backup...", "">>, now)
            /\ Set("one", [proc["one"] EXCEPT !.pc =
                   IF storages[proc["one"].storageID].configOk
                   THEN "check" ELSE "providerFailed"])
       ELSE /\ Return("one", <<"update failed", "">>)
            /\ UNCHANGED jobs
  /\ UNCHANGED <<now, cancelled, storages, nextId, store, reader, config, fan, active, clean, bk, sch, drv,
                 db>>

\* a `s.updateJobStatus(ctx, job.ID, StatusFailed, msg)` whose error is dropped,
\* followed by `return fmt.Errorf(...)`
FailJob(p, at, msg, r) ==
  /\ proc[p].pc = at
  /\ \E ok \in SaveOutcomes(Ctx(p)) :
       IF ok /\ proc[p].job \in DOMAIN jobs
       THEN jobs' = updateJobStatus(jobs, proc[p].job, "failed", msg, now)
       ELSE UNCHANGED jobs
  /\ Return(p, r)
  /\ UNCHANGED <<now, cancelled, storages, nextId, store, reader, config, fan, active, clean, bk, sch, drv,
                 db>>

\* lines 83-86
SyncToStorage_ProviderFailed ==
  FailJob("one", "providerFailed", <<"Failed to create storage provider", "">>,
          <<"failed to create storage provider", "">>)

\* lines 89 and 228-253: checkExistingBackup (GetDataInfo, then provider.Exists)
SyncToStorage_Check ==
  /\ proc["one"].pc = "check"
  /\ LET name == CheckFilename(now) IN
     \/ \* GetDataInfo fails: no driver call
        /\ FALSE \in GetDataInfoOutcomes(bk.missing)
        /\ Set("one", [proc["one"] EXCEPT !.pc = "checkFailed"])
     \/ \E ok \in DriverOutcomes(TypeOf("one"), "one") :
          /\ TRUE \in GetDataInfoOutcomes(bk.missing)
          /\ Set("one", [proc["one"] EXCEPT
                 !.calls = 1,
                 !.filename = IF ok THEN name ELSE @,
                 !.pc = IF ~ok THEN "checkFailed"
                        ELSE IF name \in DOMAIN store[proc["one"].storageID]
                        THEN "using" ELSE "build"])
  /\ UNCHANGED <<now, cancelled, storages, jobs, nextId, store, reader, config, fan, active, clean, bk, sch,
                 drv, db>>

\* lines 90-93
SyncToStorage_CheckFailed ==
  FailJob("one", "checkFailed", <<"Failed to check existing backup", "">>,
          <<"failed to check existing backup", "">>)

\* lines 96-102 and backup.go 41-63: CreateBackup returns a fresh bytes.Reader
SyncToStorage_Build ==
  /\ proc["one"].pc = "build"
  /\ \/ /\ ~bk.missing
        /\ Set("one", [proc["one"] EXCEPT !.pc = "uploading", !.builds = 1,
                          !.filename = BackupFilename(now, config.password)])
        /\ reader' = [reader EXCEPT !["one"] = 0]
     \/ /\ Set("one", [proc["one"] EXCEPT !.pc = "buildFailed",
                                         !.err = CreateBackupError(bk.missing)])
        /\ UNCHANGED reader
  /\ UNCHANGED <<now, cancelled, storages, jobs, nextId, store, config, fan, active, clean, bk, sch, drv,
                 db>>

\* lines 99-102
SyncToStorage_BuildFailed ==
  FailJob("one", "buildFailed", <<"Failed to create backup", "">>,
          <<"failed to create backup", "">>)

\* a `if err := s.updateJobStatus(ctx, id, StatusRunning, msg); err != nil
\* { return err }`
Progress(p, at, msg, next) ==
  /\ proc[p].pc = at
  /\ \E ok \in SaveOutcomes(Ctx(p)) :
       IF ok /\ proc[p].job \in DOMAIN jobs
       THEN /\ jobs' = updateJobStatus(jobs, proc[p].job, "running", msg, now)
            /\ Set(p, [proc[p] EXCEPT !.pc = next])
       ELSE /\ Return(p, <<"update failed", "">>)
            /\ UNCHANGED jobs
  /\ UNCHANGED <<now, cancelled, storages, nextId, store, reader, config, fan, active, clean, bk, sch, drv,
                 db>>

\* lines 103-108: the backup exists, backupReader stays nil
SyncToStorage_Using ==
  Progress("one", "using", <<"Using existing backup", proc["one"].filename>>,
           "uploading")

\* lines 110-115: "Uploading backup...", then uploadWithBackoff starts with i = 0
SyncToStorage_Uploading ==
  Progress("one", "uploading", <<"Uploading backup...", "">>, LoopHead(0))

(***************************************************************************)
(* uploadWithBackoff / uploadWithResume, run by goroutine p for its job.   *)
(***************************************************************************)

\* the attempt of iteration i failed with e: lastErr = e, i++, loop head;
\* past the last iteration the loop returns "upload failed after N retries: e"
AttemptFailed(p, e) ==
  [proc[p] EXCEPT !.lastErr = e, !.i = @ + 1, !.data = <<>>,
                  !.pc = LoopHead(proc[p].i + 1),
                  !.err = IF proc[p].i + 1 > config.maxRetries
                          THEN <<"upload failed after retries", e>> ELSE @]

\* lines 264-267: updateJobStatus(Running, "Retrying upload (i/N)...")
uploadWithBackoff_RetryUpd(p) ==
  /\ proc[p].pc = "retryUpd"
  /\ \E ok \in SaveOutcomes(Ctx(p)) :
       IF ok /\ proc[p].job \in DOMAIN jobs
       THEN /\ jobs' = updateJobStatus(jobs, proc[p].job, "running",
                                       <<"Retrying upload", proc[p].i>>, now)
            /\ Set(p, [proc[p] EXCEPT !.pc = "sleep"])
       ELSE /\ Set(p, [proc[p] EXCEPT !.pc = "uploadFailed",
                                      !.err = <<"update failed", "">>])
            /\ UNCHANGED jobs
  /\ UNCHANGED <<now, cancelled, storages, nextId, store, reader, config, fan, active, clean, bk, sch, drv,
                 db>>

\* Mutant: the timer of the sleep may win over a context that is done.
uploadWithBackoff_Sleep_TimerWins(p) ==
  /\ proc[p].pc = "sleep"
  /\ \/ Set(p, [proc[p] EXCEPT !.pc = "probe"])
     \/ /\ cancelled[Ctx(p)]
        /\ Set(p, [proc[p] EXCEPT !.pc = "uploadFailed",
                                  !.err = <<"context canceled", "">>])
  /\ UNCHANGED <<now, cancelled, storages, jobs, nextId, store, reader, config, fan, active, clean, bk, sch,
                 drv, db>>

\* lines 269-273: select { case <-time.After(d): case <-ctx.Done(): return ctx.Err() }
\* The goroutine is parked on both channels and the first one to become
\* ready takes it: the timer while the context is live, ctx.Done() as soon as
\* the context is cancelled (before or during the sleep).
uploadWithBackoff_Sleep(p) ==
  /\ proc[p].pc = "sleep"
  /\ \/ /\ ~cancelled[Ctx(p)]
        /\ Set(p, [proc[p] EXCEPT !.pc = "probe"])
     \/ /\ cancelled[Ctx(p)]
        /\ Set(p, [proc[p] EXCEPT !.pc = "uploadFailed",
                                  !.err = <<"context canceled", "">>])
  /\ UNCHANGED <<now, cancelled, storages, jobs, nextId, store, reader, config, fan, active, clean, bk, sch,
                 drv, db>>

\* lines 277 and 290-311: uploadWithResume is entered (one attempt); with
\* enableResume it asks provider.Exists and, for an existing object,
\* provider.GetFileSize; either may fail, and both lead to provider.Upload
uploadWithResume_Probe(p) ==
  /\ proc[p].pc = "probe"
  /\ \E ok \in DriverOutcomes(TypeOf(p), Ctx(p)) :
       IF ok
       THEN Set(p, [proc[p] EXCEPT !.calls = 1, !.attempts = @ + 1, !.pc = "read"])
       ELSE \E e \in IF proc[p].filename \in DOMAIN store[proc[p].storageID]
                     THEN {"exists", "size"} ELSE {"exists"} :
              Set(p, [AttemptFailed(p, e) EXCEPT !.calls = 1, !.attempts = @ + 1])
  /\ UNCHANGED <<now, cancelled, storages, jobs, nextId, store, reader, config, fan, active, clean, bk, sch,
                 drv, db>>

\* the reader a goroutine uploads from: SyncToStorage's own backupReader, or
\* the one reader ConcurrentSyncToStorages hands to every worker
ReaderOf(p) == IF p = "one" THEN "one" ELSE "many"

\* provider.Upload starts to read its body (webdav.go 62, io.ReadAll; the S3
\* client reads Body the same way): bytes.Reader.Read loads the offset r.i.
\* A nil io.Reader makes io.ReadAll panic; the S3 client sends an empty body.
Upload_ReadLoad(p) ==
  /\ proc[p].pc = "read"
  /\ IF reader[ReaderOf(p)] = None
     THEN IF TypeOf(p) = "webdav"
          THEN Set(p, [proc[p] EXCEPT !.pc = "panic"])
          ELSE Set(p, [proc[p] EXCEPT !.pc = "write", !.data = <<>>])
     ELSE Set(p, [proc[p] EXCEPT !.pc = "copy", !.off = reader[ReaderOf(p)]])
  /\ UNCHANGED <<now, cancelled, storages, jobs, nextId, store, reader, config, fan, active, clean, bk, sch,
                 drv, db>>

\* bytes.Reader.Read copies r.s[r.i:] and stores the advanced offset; Read
\* is not synchronised, so the offset used is the one loaded before
Upload_ReadCopy(p) ==
  /\ proc[p].pc = "copy"
  /\ Set(p, [proc[p] EXCEPT !.pc = "write", !.off = 0,
                            !.data = SubSeq(Archive, proc[p].off + 1, Len(Archive))])
  /\ reader' = [reader EXCEPT ![ReaderOf(p)] = Len(Archive)]
  /\ UNCHANGED <<now, cancelled, storages, jobs, nextId, store, config, fan, active, clean, bk, sch, drv,
                 db>>

\* the remote write of provider.Upload (webdav.go 67, s3.go 97): the object
\* is replaced by the bytes read, or the call fails and the attempt with it
Upload_Write(p) ==
  /\ proc[p].pc = "write"
  /\ \E ok \in DriverOutcomes(TypeOf(p), Ctx(p)) :
       IF ok
       THEN /\ store' = [store EXCEPT ![proc[p].storageID] =
                           (proc[p].filename :> proc[p].data) @@ @]
            /\ Set(p, [proc[p] EXCEPT !.pc = "complete", !.data = <<>>])
       ELSE /\ Set(p, AttemptFailed(p, "write"))
            /\ UNCHANGED store
  /\ UNCHANGED <<now, cancelled, storages, jobs, nextId, reader, config, fan, active, clean, bk, sch, drv,
                 db>>

\* Mutant: the `return` after the failed upload is missing, the function
\* goes on to mark the job completed.
Sync_UploadFailed_NoReturn(p) ==
  /\ proc[p].pc = "uploadFailed"
  /\ \E ok \in SaveOutcomes(Ctx(p)) :
       IF ok /\ proc[p].job \in DOMAIN jobs
       THEN jobs' = updateJobStatus(jobs, proc[p].job, "failed",
                       <<"Failed to upload backup after retries", proc[p].err[1]>>, now)
       ELSE UNCHANGED jobs
  /\ Set(p, [proc[p] EXCEPT !.pc = "complete"])
  /\ UNCHANGED <<now, cancelled, storages, nextId, store, reader, config, fan, active, clean, bk, sch, drv,
                 db>>

\* sync.go 115-118 / 214-217: uploadWithBackoff returned err
Sync_UploadFailed(p) ==
  FailJob(p, "uploadFailed",
          <<"Failed to upload backup after retries", proc[p].err[1]>>,
          <<"failed to upload backup after retries", proc[p].err>>)

\* sync.go 120-125 / 219-224: updateJobStatus(Completed, "Backup uploaded
\* successfully: <filename>")
Sync_Complete(p) ==
  /\ proc[p].pc = "complete"
  /\ \E ok \in SaveOutcomes(Ctx(p)) :
       IF ok /\ proc[p].job \in DOMAIN jobs
       THEN /\ jobs' = updateJobStatus(jobs, proc[p].job, "completed",
                          <<"Backup uploaded successfully", proc[p].filename>>, now)
            /\ Return(p, <<"ok", "">>)
       ELSE /\ Return(p, <<"update failed", "">>)
            /\ UNCHANGED jobs
  /\ UNCHANGED <<now, cancelled, storages, nextId, store, reader, config, fan, active, clean, bk, sch, drv,
                 db>>

(***************************************************************************)
(* ConcurrentSyncToStorages (sync_many), goroutine "many", and its workers *)
(* (the closure of lines 150-161 running syncToStorageWithBackup).         *)
(***************************************************************************)

WorkerAt(k) == WorkerNames[k]

\* lines 129-162: the empty-list check, CreateBackup (one reader for all
\* workers), the semaphore, the WaitGroup, errChan, and one goroutine per id
ConcurrentSyncToStorages_Start(storageIDs) ==
  /\ "many" \in active
  /\ proc["many"].pc = "idle"
  /\ IF Len(storageIDs) = 0
     THEN /\ Set("many", [IdleProc EXCEPT !.pc = "done",
                                          !.ret = <<"no storage IDs provided", "">>])
          /\ UNCHANGED <<reader, fan>>
     ELSE \/ /\ Set("many", [IdleProc EXCEPT !.pc = "done",
                                             !.ret = <<"failed to create backup", "">>,
                                             !.err = CreateBackupError(bk.missing)])
             /\ UNCHANGED <<reader, fan>>
          \/ /\ ~bk.missing
             /\ proc' = [p \in DOMAIN proc |->
                          IF p = "many"
                          THEN [IdleProc EXCEPT !.pc = "wait", !.builds = 1,
                                   !.filename = BackupFilename(now, config.password)]
                          ELSE IF \E k \in 1..Len(storageIDs) : p = WorkerAt(k)
                          THEN [IdleProc EXCEPT !.pc = "acquire",
                                   !.storageID =
                                      storageIDs[CHOOSE k \in 1..Len(storageIDs) :
                                                    p = WorkerAt(k)],
                                   !.filename = BackupFilename(now, config.password)]
                          ELSE proc[p]]
             /\ reader' = [reader EXCEPT !["many"] = 0]
             /\ fan' = [storageIDs |-> storageIDs, semaphore |-> 0,
                        wg |-> Len(storageIDs), errChan |-> <<>>]
  /\ UNCHANGED <<now, cancelled, storages, jobs, nextId, store, config, active, clean, bk, sch, drv, db>>

\* sync.NewService (sync.go:34): the concurrency of a new service
DefaultConcurrency == 3

\* sync.go 46-50, SetConcurrency: s.concurrency after the call
SetConcurrency(current, concurrency) ==
  IF concurrency > 0 THEN concurrency ELSE current

\* Mutant: the semaphore is made with sync.concurrency as configured.
ServiceConcurrency_Configured == config.concurrency

\* scheduler.NewService (part_006 31-33) hands sync.concurrency of the
\* configuration to SetConcurrency when it is positive: s.concurrency, the
\* capacity of the semaphore (sync.go:141)
ServiceConcurrency ==
  IF config.concurrency > 0
  THEN SetConcurrency(DefaultConcurrency, config.concurrency)
  ELSE DefaultConcurrency

\* Mutant: the send blocks only when the channel holds more than its capacity.
Worker_Acquire_OffByOne(w) ==
  /\ proc[w].pc = "acquire"
  /\ fan.semaphore <= ServiceConcurrency
  /\ fan' = [fan EXCEPT !.semaphore = @ + 1]
  /\ Set(w, [proc[w] EXCEPT !.pc = "get"])
  /\ UNCHANGED <<now, cancelled, storages, jobs, nextId, store, reader, config, active, clean, bk, sch, drv,
                 db>>

\* line 154: semaphore <- struct{}{} (blocks while the channel is full)
Worker_Acquire(w) ==
  /\ proc[w].pc = "acquire"
  /\ fan.semaphore < ServiceConcurrency
  /\ fan' = [fan EXCEPT !.semaphore = @ + 1]
  /\ Set(w, [proc[w] EXCEPT !.pc = "get"])
  /\ UNCHANGED <<now, cancelled, storages, jobs, nextId, store, reader, config, active, clean, bk, sch, drv,
                 db>>

\* lines 183-190: Storage.Get and the enabled check
syncToStorageWithBackup_Get(w) ==
  /\ proc[w].pc = "get"
  /\ \E ok \in SaveOutcomes("many") :
       IF ~ok \/ proc[w].storageID \notin DOMAIN storages
       THEN Return(w, <<"failed to get storage", "">>)
       ELSE IF ~storages[proc[w].storageID].enabled
       THEN Return(w, <<"storage is disabled", "">>)
       ELSE Set(w, [proc[w] EXCEPT !.pc = "create"])
  /\ UNCHANGED <<now, cancelled, storages, jobs, nextId, store, reader, config, fan, active, clean, bk, sch,
                 drv, db>>

\* lines 192-201
syncToStorageWithBackup_Create(w) == CreateJob(w, "backup")

\* lines 203-207 and 214: updateJobStatus(Running, "Uploading backup..."),
\* createStorageProvider (local), then uploadWithBackoff starts with i = 0
syncToStorageWithBackup_MarkRunning(w) ==
  Progress(w, "markRunning", <<"Uploading backup...", "">>,
           IF storages[proc[w].storageID].configOk
           THEN LoopHead(0) ELSE "providerFailed")

\* lines 208-211
syncToStorageWithBackup_ProviderFailed(w) ==
  FailJob(w, "providerFailed", <<"Failed to create storage provider", "">>,
          <<"failed to create storage provider", "">>)

\* lines 151-160: the worker's error goes to errChan (buffered for every
\* worker, so the send never blocks), then the deferred calls run: the
\* semaphore slot is given back and wg.Done() is called; the goroutine ends
\* and only its result is kept
Worker_Release(w) ==
  /\ proc[w].pc = "done"
  /\ proc[w].ret[1] = "ok" \/ Len(fan.errChan) < Len(fan.storageIDs)
  /\ fan' = [fan EXCEPT !.semaphore = @ - 1,
                        !.wg = @ - 1,
                        !.errChan = IF proc[w].ret[1] # "ok"
                                    THEN Append(@, w) ELSE @]
  /\ Set(w, [IdleProc EXCEPT !.pc = "exited", !.storageID = proc[w].storageID,
                             !.job = proc[w].job, !.ret = proc[w].ret,
                             !.calls = proc[w].calls,
                             !.filename = proc[w].filename])
  /\ UNCHANGED <<now, cancelled, storages, jobs, nextId, store, reader, config, active, clean, bk, sch, drv,
                 db>>

\* Mutant: the parent does not wait for the workers.
ConcurrentSyncToStorages_Collect_NoWait ==
  /\ proc["many"].pc = "wait"
  /\ Return("many", IF Len(fan.errChan) > 0
                    THEN <<"sync failed", Len(fan.errChan)>> ELSE <<"ok", "">>)
  /\ UNCHANGED <<now, cancelled, storages, jobs, nextId, store, reader, config, fan, active, clean, bk, sch,
                 drv, db>>

\* lines 165-178: wg.Wait(), close(errChan), the errors are collected
ConcurrentSyncToStorages_Collect ==
  /\ proc["many"].pc = "wait"
  /\ fan.wg = 0
  /\ Return("many", IF Len(fan.errChan) > 0
                    THEN <<"sync failed", Len(fan.errChan)>> ELSE <<"ok", "">>)
  /\ UNCHANGED <<now, cancelled, storages, jobs, nextId, store, reader, config, fan, active, clean, bk, sch,
                 drv, db>>

(***************************************************************************)
(* RestoreFromStorage (restore), goroutine "restore".                      *)
(***************************************************************************)

\* lines 324-327: a call RestoreFromStorage(ctx, storageID, filename, dest);
\* Storage.Get (no enabled check)
RestoreFromStorage_Get(storageID, filename) ==
  /\ "restore" \in active
  /\ proc["restore"].pc = "idle"
  /\ \E ok \in SaveOutcomes("restore") :
       IF ~ok \/ storageID \notin DOMAIN storages
       THEN Set("restore", [IdleProc EXCEPT !.pc = "done", !.storageID = storageID,
                               !.filename = filename,
                               !.ret = <<"failed to get storage", "">>])
       ELSE Set("restore", [IdleProc EXCEPT !.pc = "create", !.storageID = storageID,
                               !.filename = filename])
  /\ UNCHANGED <<now, cancelled, storages, jobs, nextId, store, reader, config, fan, active, clean, bk, sch,
                 drv, db>>

\* lines 329-338
RestoreFromStorage_Create == CreateJob("restore", "restore")

\* head of `for i := 0; i <= s.maxRetries; i++` in RestoreFromStorage; after
\* the loop a nil backupReader leads to lines 380-383
DownloadLoopHead(i) ==
  IF i > config.maxRetries THEN "downloadFailed"
  ELSE IF i > 0 THEN "retryUpd" ELSE "download"

\* lines 340-348: updateJobStatus(Running, "Downloading backup..."), then
\* createStorageProvider (local)
RestoreFromStorage_MarkRunning ==
  Progress("restore", "markRunning", <<"Downloading backup...", "">>,
           IF storages[proc["restore"].storageID].configOk
           THEN DownloadLoopHead(0) ELSE "providerFailed")

\* lines 345-348
RestoreFromStorage_ProviderFailed ==
  FailJob("restore", "providerFailed", <<"Failed to create storage provider", "">>,
          <<"failed to create storage provider", "">>)

\* lines 359-362: updateJobStatus(Running, "Retrying download (i/N)..."); on
\* error `return err`
RestoreFromStorage_RetryUpd ==
  Progress("restore", "retryUpd", <<"Retrying download", proc["restore"].i>>, "sleep")

\* lines 364-368: select { case <-time.After(d): case <-ctx.Done(): return ctx.Err() }
RestoreFromStorage_Sleep ==
  /\ proc["restore"].pc = "sleep"
  /\ \/ /\ ~cancelled["restore"]
        /\ Set("restore", [proc["restore"] EXCEPT !.pc = "download"])
     \/ /\ cancelled["restore"]
        /\ Return("restore", <<"context canceled", "">>)
  /\ UNCHANGED <<now, cancelled, storages, jobs, nextId, store, reader, config, fan, active, clean, bk, sch,
                 drv, db>>

\* lines 371-377: provider.Download; an absent object is an error like any other
RestoreFromStorage_Download ==
  /\ proc["restore"].pc = "download"
  /\ LET r == proc["restore"] IN
     \E ok \in DriverOutcomes(TypeOf("restore"), "restore") :
       IF ok /\ r.filename \in DOMAIN store[r.storageID]
       THEN Set("restore", [r EXCEPT !.pc = "extracting", !.calls = 1,
                                     !.attempts = @ + 1,
                                     !.data = store[r.storageID][r.filename]])
       ELSE Set("restore", [r EXCEPT !.calls = 1, !.lastErr = "download",
                                     !.attempts = @ + 1,
                                     !.i = @ + 1, !.pc = DownloadLoopHead(r.i + 1)])
  /\ UNCHANGED <<now, cancelled, storages, jobs, nextId, store, reader, config, fan, active, clean, bk, sch,
                 drv, db>>

\* lines 380-383
RestoreFromStorage_DownloadFailed ==
  FailJob("restore", "downloadFailed",
          <<"Failed to download backup after retries", proc["restore"].lastErr>>,
          <<"failed to download backup after retries", proc["restore"].lastErr>>)

\* lines 386-388
RestoreFromStorage_Extracting ==
  Progress("restore", "extracting", <<"Extracting backup...", "">>, "extract")

\* lines 390 and backup.go 164-222: ExtractBackup; bytes that are not a whole
\* archive are no ZIP (zip.NewReader fails), a whole archive is extracted
\* unless the destination cannot be written
RestoreFromStorage_Extract ==
  /\ proc["restore"].pc = "extract"
  /\ \E ok \in BOOLEAN :
       Set("restore", [proc["restore"] EXCEPT !.pc =
              IF ok /\ proc["restore"].data = Archive
              THEN "complete" ELSE "extractFailed"])
  /\ UNCHANGED <<now, cancelled, storages, jobs, nextId, store, reader, config, fan, active, clean, bk, sch,
                 drv, db>>

\* lines 391-392
RestoreFromStorage_ExtractFailed ==
  FailJob("restore", "extractFailed", <<"Failed to extract backup", "">>,
          <<"failed to extract backup", "">>)

\* lines 395-400
RestoreFromStorage_Complete ==
  /\ proc["restore"].pc = "complete"
  /\ \E ok \in SaveOutcomes("restore") :
       IF ok /\ proc["restore"].job \in DOMAIN jobs
       THEN /\ jobs' = updateJobStatus(jobs, proc["restore"].job, "completed",
                          <<"Backup restored successfully from",
                            proc["restore"].filename>>, now)
            /\ Return("restore", <<"ok", "">>)
       ELSE /\ Return("restore", <<"update failed", "">>)
            /\ UNCHANGED jobs
  /\ UNCHANGED <<now, cancelled, storages, nextId, store, reader, config, fan, active, clean, bk, sch, drv,
                 db>>

(***************************************************************************)
(* CleanupOldSyncJobs (retention pass), goroutines "cleanup", "cleanup2".  *)
(***************************************************************************)

IdleClean ==
  [pc |-> "idle", cutoffTime |-> None, ids |-> {}, totalDeleted |-> 0,
   ret |-> "none"]

SetClean(c, rec) == clean' = [clean EXCEPT ![c] = rec]

\* SyncJob.Query().Where(CreatedAtLT(cutoff)): the rows older than the cutoff
OlderThan(js, cutoff) == {id \in DOMAIN js : js[id].created_at < cutoff}

\* Mutant: the pass does not test whether retention is disabled.
CleanupOldSyncJobs_Start_NoDisabledCheck(c) ==
  /\ c \in active
  /\ clean[c].pc = "idle"
  /\ SetClean(c, [IdleClean EXCEPT !.pc = "query",
                     !.cutoffTime = now - config.retention_days])
  /\ UNCHANGED <<now, cancelled, storages, jobs, nextId, store, reader, config, proc,
                 fan, active, bk, sch, drv, db>>

\* lines 28-36: a call of CleanupOldSyncJobs(ctx)
CleanupOldSyncJobs_Start(c) ==
  /\ c \in active
  /\ clean[c].pc = "idle"
  /\ IF config.retention_days <= 0
     THEN SetClean(c, [IdleClean EXCEPT !.pc = "done", !.ret = "ok"])
     ELSE SetClean(c, [IdleClean EXCEPT !.pc = "query",
                          !.cutoffTime = now - config.retention_days])
  /\ UNCHANGED <<now, cancelled, storages, jobs, nextId, store, reader, config, proc,
                 fan, active, bk, sch, drv, db>>

\* lines 44-65: the cancellation check at the head of the loop, then
\* Query().Where(CreatedAtLT(cutoffTime)).Limit(batchSize).IDs(ctx); the
\* query has no ORDER BY, so any batchSize of the old rows may be returned
CleanupOldSyncJobs_Query(c) ==
  /\ clean[c].pc = "query"
  /\ IF cancelled[c]
     THEN SetClean(c, [clean[c] EXCEPT !.pc = "done", !.ret = "context canceled"])
     ELSE \/ SetClean(c, [clean[c] EXCEPT !.pc = "done", !.ret = "query failed"])
          \/ LET old == OlderThan(jobs, clean[c].cutoffTime) IN
             \E ids \in SUBSET old :
               /\ Cardinality(ids) = IF Cardinality(old) < batchSize
                                     THEN Cardinality(old) ELSE batchSize
               /\ IF ids = {}
                  THEN SetClean(c, [clean[c] EXCEPT !.pc = "done", !.ret = "ok"])
                  ELSE SetClean(c, [clean[c] EXCEPT !.pc = "delete", !.ids = ids])
  /\ UNCHANGED <<now, cancelled, storages, jobs, nextId, store, reader, config, proc,
                 fan, active, bk, sch, drv, db>>

\* Mutant: the batch is deleted under a context of its own, which is never
\* done.
CleanupOldSyncJobs_Delete_Detached(c) ==
  /\ clean[c].pc = "delete"
  /\ LET gone == clean[c].ids \cap DOMAIN jobs
         deletedCount == Cardinality(gone) IN
     /\ jobs' = [id \in DOMAIN jobs \ gone |-> jobs[id]]
     /\ SetClean(c, [clean[c] EXCEPT
            !.ids = {},
            !.totalDeleted = @ + deletedCount,
            !.pc = IF deletedCount < batchSize THEN "done" ELSE "pause",
            !.ret = IF deletedCount < batchSize THEN "ok" ELSE @])
  /\ UNCHANGED <<now, cancelled, storages, nextId, store, reader, config, proc,
                 fan, active, bk, sch, drv, db>>

\* lines 68-80: Delete().Where(IDIn(ids...)).Exec(ctx) removes the rows that
\* still exist; fewer than batchSize deleted rows end the pass
CleanupOldSyncJobs_Delete(c) ==
  /\ clean[c].pc = "delete"
  /\ \E ok \in SaveOutcomes(c) :
       IF ok
       THEN LET gone == clean[c].ids \cap DOMAIN jobs
                deletedCount == Cardinality(gone) IN
            /\ jobs' = [id \in DOMAIN jobs \ gone |-> jobs[id]]
            /\ SetClean(c, [clean[c] EXCEPT
                   !.ids = {},
                   !.totalDeleted = @ + deletedCount,
                   !.pc = IF deletedCount < batchSize THEN "done" ELSE "pause",
                   !.ret = IF deletedCount < batchSize THEN "ok" ELSE @])
       ELSE /\ SetClean(c, [clean[c] EXCEPT !.pc = "done", !.ret = "delete failed",
                                            !.ids = {}])
            /\ UNCHANGED jobs
  /\ UNCHANGED <<now, cancelled, storages, nextId, store, reader, config, proc,
                 fan, active, bk, sch, drv, db>>

\* lines 83-88: select { case <-ctx.Done(): return ctx.Err()
\*                       case <-time.After(100ms): }
\* (the first channel to become ready takes the goroutine, as in the sleep
\* of uploadWithBackoff)
CleanupOldSyncJobs_Pause(c) ==
  /\ clean[c].pc = "pause"
  /\ \/ /\ ~cancelled[c]
        /\ SetClean(c, [clean[c] EXCEPT !.pc = "query"])
     \/ /\ cancelled[c]
        /\ SetClean(c, [clean[c] EXCEPT !.pc = "done", !.ret = "context canceled"])
  /\ UNCHANGED <<now, cancelled, storages, jobs, nextId, store, reader, config, proc,
                 fan, active, bk, sch, drv, db>>

(***************************************************************************)
(* backup.Service: CreateBackup, encryptData, DecryptData, ExtractBackup.  *)
(* A file name is the sequence of its characters; archive bytes are kept   *)
(* as the structure they encode, together with their length.               *)
(***************************************************************************)

\* most files of a data directory, most entries of an archive built elsewhere
MaxFiles == 2

\* relative paths of regular files of a data directory: a, d/b, a..b
FileNames ==
  {<<"a">>, <<"d", "/", "b">>, <<"a", ".", ".", "b">>}

\* entry names of an archive built elsewhere: the above, ../x, d/../../x,
\* the directory entry d/, and /x
EntryNames ==
  FileNames \cup
    {<<".", ".", "/", "x">>,
     <<"d", "/", ".", ".", "/", ".", ".", "/", "x">>,
     <<"d", "/">>,
     <<"/", "x">>}

\* file contents: an empty file and a file of one byte
Contents == {<<>>, <<7>>}

Passwords == {"", "p", "q"}

\* strings.Contains(s, sub)
Contains(s, sub) ==
  \E i \in 1..(Len(s) - Len(sub) + 1) : SubSeq(s, i, i + Len(sub) - 1) = sub

\* strings.Split(s, "/"): the segments of a path
RECURSIVE Split(_)
Split(s) ==
  IF s = <<>> THEN << <<>> >>
  ELSE LET rest == Split(Tail(s)) IN
       IF Head(s) = "/" THEN << <<>> >> \o rest
       ELSE << <<Head(s)>> \o Head(rest) >> \o Tail(rest)

\* filepath.Join(destPath, name) = Clean(destPath + "/" + name), relative to
\* destPath: empty and "." segments are dropped, ".." removes the segment
\* before it or, with none left, climbs above destPath (up counts the levels)
RECURSIVE Clean(_, _)
Clean(segs, acc) ==
  IF segs = <<>> THEN acc
  ELSE LET g == Head(segs) IN
       Clean(Tail(segs),
             IF g = <<>> \/ g = <<".">> THEN acc
             ELSE IF g = <<".", ".">>
             THEN IF acc.path = <<>> THEN [acc EXCEPT !.up = @ + 1]
                  ELSE [acc EXCEPT !.path = SubSeq(@, 1, Len(@) - 1)]
             ELSE [acc EXCEPT !.path = Append(@, g)])

Join(name) == Clean(Split(name), [up |-> 0, path |-> <<>>])

\* byte order of the characters used in names
CharRank(c) ==
  CASE c = "." -> 46 [] c = "/" -> 47 [] c = "a" -> 97 [] c = "b" -> 98
    [] c = "d" -> 100 [] c = "x" -> 120

\* s < t for strings (sort.Strings, used by filepath.Walk for the names of
\* one directory)
RECURSIVE StrLess(_, _)
StrLess(s, t) ==
  IF t = <<>> THEN FALSE
  ELSE IF s = <<>> THEN TRUE
  ELSE IF Head(s) # Head(t) THEN CharRank(Head(s)) < CharRank(Head(t))
  ELSE StrLess(Tail(s), Tail(t))

\* filepath.Walk visits p before q: lexical order, directory by directory
RECURSIVE WalkBefore(_, _)
WalkBefore(p, q) ==
  IF q = <<>> THEN FALSE
  ELSE IF p = <<>> THEN TRUE
  ELSE IF Head(p) # Head(q) THEN StrLess(Head(p), Head(q))
  ELSE WalkBefore(Tail(p), Tail(q))

\* backup.go 65-97, createZipArchive: one entry per regular file, named by
\* its path relative to the data directory, in the order of filepath.Walk
RECURSIVE createZipArchive(_)
createZipArchive(dir) ==
  IF DOMAIN dir = {} THEN <<>>
  ELSE LET first == CHOOSE n \in DOMAIN dir :
                      \A m \in DOMAIN dir \ {n} : WalkBefore(Split(n), Split(m))
       IN <<[name |-> first, body |-> dir[first]]>> \o
          createZipArchive([n \in DOMAIN dir \ {first} |-> dir[n]])

\* the bytes of a ZIP file with the given entries
ZipOf(entries) == [kind |-> "zip", entries |-> entries]

RECURSIVE EntriesLen(_)
EntriesLen(entries) ==
  IF entries = <<>> THEN 0
  ELSE 76 + 2 * Len(Head(entries).name) + Len(Head(entries).body)
       + EntriesLen(Tail(entries))

\* len(data): a ZIP file is its end record (22 bytes) and, per entry, a
\* local header (30), a directory header (46), the name twice and the body;
\* encrypted data is salt (32), nonce (12), the ciphertext and the tag (16)
RECURSIVE BlobLen(_)
BlobLen(b) ==
  IF b.kind = "zip" THEN 22 + EntriesLen(b.entries)
  ELSE 60 + BlobLen(b.inner)

\* pbkdf2.Key(password, salt, ...): different inputs give different keys
KeyOf(pw, salt) == <<pw, salt>>

\* backup.go 99-129, encryptData with the random salt drawn
encryptData(data, pw, salt) ==
  [kind |-> "enc", salt |-> salt, key |-> KeyOf(pw, salt), inner |-> data]

\* Mutant: the authentication tag is not verified.
DecryptData_NoAuth(data, pw) ==
  IF pw = "" THEN [err |-> "no password set for decryption"]
  ELSE IF BlobLen(data) < 32 THEN [err |-> "encrypted data too short"]
  ELSE IF data.kind = "enc" THEN [err |-> "", data |-> data.inner]
  ELSE [err |-> "message authentication failed"]

\* backup.go 131-162, DecryptData: gcm.Open gives the plaintext back only
\* under the key the data was sealed with
DecryptData(data, pw) ==
  IF pw = "" THEN [err |-> "no password set for decryption"]
  ELSE IF BlobLen(data) < 32 THEN [err |-> "encrypted data too short"]
  ELSE IF BlobLen(data) - 32 < 12 THEN [err |-> "ciphertext too short"]
  ELSE IF data.kind = "enc" /\ data.key = KeyOf(pw, data.salt)
  THEN [err |-> "", data |-> data.inner]
  ELSE [err |-> "message authentication failed"]

\* what is under a data directory besides regular files: a directory, a
\* symbolic link to a regular file, to a directory or to nothing, and a
\* device node (or a socket or a FIFO)
SpecialKinds == {"dir", "linkToFile", "linkToDir", "linkDangling", "device"}

\* relative paths of such nodes: x, d/x
SpecialNames == {<<"x">>, <<"d", "/", "x">>}

\* backup.go 69-96, the callback of filepath.Walk on a node that is not a
\* regular file. Walk describes each node by os.Lstat, so only a real
\* directory has info.IsDir() and is skipped (lines 74-76); for every other
\* node the callback calls zipWriter.Create(relPath), os.Open(path), which
\* follows a link, and io.Copy: a link to a file yields an entry with the
\* bytes of its target, a link to a directory fails in the read, a dangling
\* link fails in os.Open, a device node yields the bytes it delivers or fails
\* to open.
walkFn(kind) ==
  CASE kind = "dir" -> {[err |-> "", entry |-> FALSE, body |-> <<>>]}
    [] kind = "linkToFile" ->
         {[err |-> "", entry |-> TRUE, body |-> b] : b \in Contents}
    [] kind = "linkToDir" ->
         {[err |-> "is a directory", entry |-> FALSE, body |-> <<>>]}
    [] kind = "linkDangling" ->
         {[err |-> "no such file or directory", entry |-> FALSE, body |-> <<>>]}
    [] kind = "device" ->
         {[err |-> "", entry |-> TRUE, body |-> b] : b \in Contents}
           \cup {[err |-> "no such device or address", entry |-> FALSE,
                  body |-> <<>>]}

\* the walk over the nodes that are not regular files: the entries they add
\* to the archive and the error of the first node, in the order of the walk,
\* on which the callback fails ("" when none does)
WalkOutcomes(nodes) ==
  LET all == UNION {walkFn(k) : k \in SpecialKinds}
      runs == {f \in [DOMAIN nodes -> all] :
                 \A n \in DOMAIN nodes : f[n] \in walkFn(nodes[n])} IN
  {LET bad == {n \in DOMAIN nodes : f[n].err # ""}
       added == {n \in DOMAIN nodes : f[n].entry} IN
   [err |-> IF bad = {} THEN ""
            ELSE f[CHOOSE n \in bad :
                     \A m \in bad \ {n} : WalkBefore(Split(n), Split(m))].err,
    entries |-> [n \in added |-> f[n].body]] : f \in runs}

\* the backup service at rest; missing: the directory at vaultwardenDataPath
\* does not exist; dir: its regular files; nodes: everything else under it
IdleBackup ==
  [pc |-> "idle", src |-> "", dir |-> << >>, nodes |-> << >>, pw |-> "",
   xpw |-> "", blob |-> ZipOf(<<>>), entries |-> <<>>, idx |-> 0,
   dest |-> << >>, outside |-> FALSE, err |-> "", cause |-> "",
   missing |-> FALSE]

BackupFrame ==
  UNCHANGED <<now, cancelled, storages, jobs, nextId, store, reader, config, proc,
              fan, active, clean, sch, drv, db>>

\* backup.go 41-63, CreateBackup: the archive of the data directory,
\* encrypted when the service has a password
CreateBackup ==
  /\ bk.pc = "idle"
  /\ \/ \E salt \in 0..1, got \in WalkOutcomes(bk.nodes) :
          LET zip == ZipOf(createZipArchive(bk.dir @@ got.entries)) IN
          /\ ~bk.missing
          /\ got.err = ""
          /\ bk' = [bk EXCEPT !.pc = "built", !.pw = config.password,
                           !.blob = IF config.password # ""
                                    THEN encryptData(zip, config.password, salt)
                                    ELSE zip]
     \/ bk' = [bk EXCEPT !.pc = "done", !.err = CreateBackupError(bk.missing)[1],
                         !.cause = CreateBackupError(bk.missing)[2]]
     \/ \E got \in WalkOutcomes(bk.nodes) :
          /\ ~bk.missing
          /\ got.err # ""
          /\ bk' = [bk EXCEPT !.pc = "done",
                              !.err = "failed to create zip archive",
                              !.cause = got.err]
  /\ BackupFrame

\* backup.go 164-181, ExtractBackup by a service whose password is xpw:
\* io.ReadAll, DecryptData when a password is set and the data is longer
\* than 32 bytes, zip.NewReader
ExtractBackup_Open(xpw) ==
  /\ bk.pc = "built"
  /\ LET dec == IF xpw # "" /\ BlobLen(bk.blob) > 32
                THEN DecryptData(bk.blob, xpw)
                ELSE [err |-> "", data |-> bk.blob]
     IN IF dec.err # ""
        THEN bk' = [bk EXCEPT !.pc = "done", !.xpw = xpw,
                              !.err = "failed to decrypt backup"]
        ELSE IF dec.data.kind # "zip"
        THEN bk' = [bk EXCEPT !.pc = "done", !.xpw = xpw,
                              !.err = "failed to create zip reader"]
        ELSE bk' = [bk EXCEPT !.pc = "extract", !.xpw = xpw,
                              !.entries = dec.data.entries, !.idx = 1]
  /\ BackupFrame

\* backup.go 183-219, one iteration of the loop over zipReader.File: a name
\* that contains ".." is skipped; a directory entry is created with
\* MkdirAll; a file is created under filepath.Join(destPath, name) and
\* written, and an I/O error ends the extraction
ExtractBackup_Entry ==
  /\ bk.pc = "extract"
  /\ bk.idx <= Len(bk.entries)
  /\ LET file == bk.entries[bk.idx]
         destFile == Join(file.name) IN
     IF Contains(file.name, <<".", ".">>)
     THEN bk' = [bk EXCEPT !.idx = @ + 1]
     ELSE \E ok \in BOOLEAN :
            IF ~ok
            THEN bk' = [bk EXCEPT !.pc = "done", !.err = "write failed"]
            ELSE IF file.name[Len(file.name)] = "/"
            THEN bk' = [bk EXCEPT !.idx = @ + 1,
                                  !.outside = @ \/ destFile.up > 0]
            ELSE bk' = [bk EXCEPT !.idx = @ + 1,
                                  !.outside = @ \/ destFile.up > 0,
                                  !.dest = IF destFile.up = 0
                                           THEN (destFile.path :> file.body) @@ @
                                           ELSE @]
  /\ BackupFrame

\* backup.go 221: every entry was handled, return nil
ExtractBackup_Return ==
  /\ bk.pc = "extract"
  /\ bk.idx > Len(bk.entries)
  /\ bk' = [bk EXCEPT !.pc = "done"]
  /\ BackupFrame

(***************************************************************************)
(* scheduler.Service: Start, its two loops, Stop, runSync, runCleanup.     *)
(* The sync loop is the goroutine of lines 50-64, the cleanup loop the     *)
(* goroutine of lines 75-95; runSync runs the fan-out as call "many",      *)
(* runCleanup runs the retention pass as call "cleanup", both under the    *)
(* context handed to Start.                                                *)
(***************************************************************************)

\* most ticks the sync timer fires in one behaviour
MaxTicks == 2

\* most ticks the cleanup timer fires in one behaviour
MaxCleanupTicks == 1

\* most storage updates of administrators in one behaviour
MaxUpdates == 1

\* the scheduler after NewService: no timer, stopChan open, no loop
IdleSched ==
  [started |-> FALSE, stopChan |-> "open",
   ticker |-> "nil", C |-> 0, fired |-> 0,
   cleanupTicker |-> "nil", cleanupC |-> 0, cleanupFired |-> 0,
   sync |-> "none", cleanup |-> "none",
   storageIDs |-> <<>>, enabledThen |-> {}, firstJob |-> 1,
   cycles |-> 0, passes |-> 0, failed |-> FALSE, cleanupFailed |-> FALSE,
   inflight |-> FALSE, updates |-> 0]

SchedFrame ==
  UNCHANGED <<now, cancelled, storages, jobs, nextId, store, reader, config, proc,
              fan, active, clean, bk, drv, db>>

\* lines 44-101: Start creates each timer and starts its loop when the
\* setting is positive
Start ==
  /\ ~sch.started
  /\ sch' = [sch EXCEPT
       !.started = TRUE,
       !.ticker = IF config.interval > 0 THEN "running" ELSE @,
       !.sync = IF config.interval > 0 THEN "select" ELSE @,
       !.cleanupTicker = IF config.retention_days > 0 THEN "running" ELSE @,
       !.cleanup = IF config.retention_days > 0 THEN "sleep" ELSE @]
  /\ SchedFrame

\* time.Ticker of line 48: the period elapses; the channel holds one tick,
\* a tick that finds it full is dropped
Ticker_Fire ==
  /\ sch.ticker = "running"
  /\ sch.fired < MaxTicks
  /\ sch' = [sch EXCEPT !.fired = @ + 1, !.C = 1]
  /\ SchedFrame

\* time.Ticker of line 73 (24 h; the initial sleep of line 79 is one minute)
CleanupTicker_Fire ==
  /\ sch.cleanupTicker = "running"
  /\ sch.cleanup # "sleep"
  /\ sch.cleanupFired < MaxCleanupTicks
  /\ sch' = [sch EXCEPT !.cleanupFired = @ + 1, !.cleanupC = 1]
  /\ SchedFrame

\* Mutant: the loop starts runSync in a goroutine of its own and waits for
\* the next tick at once.
SyncLoop_Tick_Spawn ==
  /\ sch.sync \in {"select", "query", "fanout"}
  /\ sch.C = 1
  /\ sch' = [sch EXCEPT !.C = 0, !.sync = "query", !.cycles = @ + 1,
                        !.firstJob = nextId, !.enabledThen = {}]
  /\ SchedFrame

\* lines 54-56: case <-s.ticker.C, the loop calls runSync(ctx); firstJob and
\* enabledThen remember the first row id of the cycle and the storages that
\* are enabled when the cycle enumerates them
SyncLoop_Tick ==
  /\ sch.sync = "select"
  /\ sch.C = 1
  /\ sch' = [sch EXCEPT !.C = 0, !.sync = "query", !.cycles = @ + 1,
                        !.firstJob = nextId, !.enabledThen = {}]
  /\ SchedFrame

\* lines 59-61: case <-s.stopChan, the loop returns
SyncLoop_Stop ==
  /\ sch.sync = "select"
  /\ sch.stopChan = "closed"
  /\ sch' = [sch EXCEPT !.sync = "returned"]
  /\ SchedFrame

\* Mutant: the query has no Where clause.
RECURSIVE AllIDs(_, _)
AllIDs(table, ids) ==
  IF ids = {} THEN <<>>
  ELSE LET id == CHOOSE i \in ids : \A j \in ids : i <= j IN
       <<id>> \o AllIDs(table, ids \ {id})

\* Storage.Query().Where(storage.Enabled(true)): the ids of the enabled rows
RECURSIVE EnabledIDs(_, _)
EnabledIDs(table, ids) ==
  IF ids = {} THEN <<>>
  ELSE LET id == CHOOSE i \in ids : \A j \in ids : i <= j
           rest == EnabledIDs(table, ids \ {id}) IN
       IF table[id].enabled THEN <<id>> \o rest ELSE rest

\* lines 113-134 and 56-58: the query of the enabled storages; an error or an
\* empty result ends runSync and the loop waits again (the error is logged)
runSync_Query ==
  /\ sch.sync = "query"
  /\ \E ok \in SaveOutcomes("many") :
       LET ids == EnabledIDs(storages, DOMAIN storages) IN
       IF ~ok
       THEN sch' = [sch EXCEPT !.sync = "select", !.failed = TRUE, !.inflight = FALSE]
       ELSE IF Len(ids) = 0
       THEN sch' = [sch EXCEPT !.sync = "select", !.inflight = FALSE,
                               !.storageIDs = <<>>]
       ELSE sch' = [sch EXCEPT !.sync = "fanout", !.storageIDs = ids,
                               !.enabledThen =
                                  {id \in DOMAIN storages : storages[id].enabled}]
  /\ SchedFrame

\* line 137: runSync calls ConcurrentSyncToStorages(ctx, storageIDs)
runSync_Call ==
  /\ sch.sync = "fanout"
  /\ ConcurrentSyncToStorages_Start(sch.storageIDs)

\* Mutant: a failed cycle ends the loop.
runSync_Return_StopOnError ==
  /\ sch.sync = "fanout"
  /\ proc["many"].pc = "done"
  /\ sch' = [sch EXCEPT
       !.sync = IF proc["many"].ret[1] # "ok" THEN "returned" ELSE "select",
       !.failed = @ \/ proc["many"].ret[1] # "ok",
       !.inflight = FALSE]
  /\ proc' = [p \in DOMAIN proc |-> IdleProc]
  /\ reader' = [reader EXCEPT !["many"] = None]
  /\ fan' = [storageIDs |-> <<>>, semaphore |-> 0, wg |-> 0, errChan |-> <<>>]
  /\ UNCHANGED <<now, cancelled, storages, jobs, nextId, store, config, active,
                 clean, bk, drv, db>>

\* lines 137-143 and 56-58: the fan-out has returned; its error is logged by
\* runSync and by the loop, which waits for the next tick; the locals of the
\* call are gone
runSync_Return ==
  /\ sch.sync = "fanout"
  /\ proc["many"].pc = "done"
  /\ sch' = [sch EXCEPT
       !.sync = "select",
       !.failed = @ \/ proc["many"].ret[1] # "ok",
       !.inflight = FALSE]
  /\ proc' = [p \in DOMAIN proc |-> IdleProc]
  /\ reader' = [reader EXCEPT !["many"] = None]
  /\ fan' = [storageIDs |-> <<>>, semaphore |-> 0, wg |-> 0, errChan |-> <<>>]
  /\ UNCHANGED <<now, cancelled, storages, jobs, nextId, store, config, active,
                 clean, bk, drv, db>>

\* lines 79-80: time.Sleep(1 * time.Minute) returns and the loop calls
\* runCleanup(ctx); stopChan is not looked at
CleanupLoop_Wake ==
  /\ sch.cleanup = "sleep"
  /\ sch' = [sch EXCEPT !.cleanup = "initial", !.passes = @ + 1]
  /\ SchedFrame

\* lines 85-87: case <-s.cleanupTicker.C, the loop calls runCleanup(ctx)
CleanupLoop_Tick ==
  /\ sch.cleanup = "select"
  /\ sch.cleanupC = 1
  /\ sch' = [sch EXCEPT !.cleanupC = 0, !.cleanup = "pass", !.passes = @ + 1]
  /\ SchedFrame

\* lines 90-92: case <-s.stopChan, the loop returns
CleanupLoop_Stop ==
  /\ sch.cleanup = "select"
  /\ sch.stopChan = "closed"
  /\ sch' = [sch EXCEPT !.cleanup = "returned"]
  /\ SchedFrame

\* line 154: runCleanup calls CleanupOldSyncJobs(ctx)
runCleanup_Call ==
  /\ sch.cleanup \in {"initial", "pass"}
  /\ CleanupOldSyncJobs_Start("cleanup")

\* lines 154-159 and 80-82, 87-89: the pass has returned; its error is
\* logged and the loop waits for the next tick
runCleanup_Return ==
  /\ sch.cleanup \in {"initial", "pass"}
  /\ clean["cleanup"].pc = "done"
  /\ sch' = [sch EXCEPT !.cleanup = "select",
                        !.cleanupFailed = @ \/ clean["cleanup"].ret # "ok"]
  /\ clean' = [clean EXCEPT !["cleanup"] = IdleClean]
  /\ UNCHANGED <<now, cancelled, storages, jobs, nextId, store, reader, config, proc,
                 fan, active, bk, drv, db>>

\* lines 103-111: Stop stops the timers that exist and closes stopChan; it
\* waits for nothing.  inflight remembers that a fan-out was running when
\* Stop was called, until that fan-out has returned.
Stop ==
  /\ sch.started
  /\ sch.stopChan = "open"
  /\ sch' = [sch EXCEPT
       !.ticker = IF @ = "running" THEN "stopped" ELSE @,
       !.cleanupTicker = IF @ = "running" THEN "stopped" ELSE @,
       !.stopChan = "closed",
       !.inflight = sch.sync = "fanout" /\ proc["many"].pc = "wait"]
  /\ SchedFrame

\* the context handed to Start is done
Start_CtxDone ==
  /\ sch.started
  /\ ~cancelled["many"]
  /\ cancelled' = [c \in DOMAIN cancelled |->
                     IF c \in {"many", "cleanup"} THEN TRUE ELSE cancelled[c]]
  /\ UNCHANGED <<now, storages, jobs, nextId, store, reader, config, proc, fan,
                 active, clean, bk, sch, drv, db>>

\* handler.UpdateStorage: an administrator enables or disables a storage
UpdateStorage(id, enabled) ==
  /\ id \in DOMAIN storages
  /\ storages[id].enabled # enabled
  /\ sch.updates < MaxUpdates
  /\ storages' = [storages EXCEPT ![id].enabled = enabled]
  /\ sch' = [sch EXCEPT !.updates = @ + 1]
  /\ UNCHANGED <<now, cancelled, jobs, nextId, store, reader, config, proc, fan,
                 active, clean, bk, drv, db>>

(***************************************************************************)
(* storage.Provider: the WebDAV and the S3 driver over their remotes.      *)
(***************************************************************************)

\* longest object of a remote, largest offset and length of a range read
MaxLen == 2

\* object bytes: the prefixes of 7, 8, 9, ...
Bodies == {[i \in 1..n |-> 6 + i] : n \in 0..MaxLen}

\* object paths, as the sequence of their characters: a plain name and a
\* name whose digits hold "404", as the HHMMSS part of a backup name made
\* at 14:04 does
DriverPaths == {<<"a">>, <<"1", "4", "0", "4">>}

\* a nil error
NoErr == << >>

\* the object at path on the remote of storage s
ObjectAt(objects, path) ==
  IF path \in DOMAIN objects THEN [present |-> TRUE, body |-> objects[path]]
  ELSE [present |-> FALSE, body |-> << >>]

\* a table without the rows ids: delete(map, key), DeleteOne
DeleteRows(table, ids) == [c \in DOMAIN table \ ids |-> table[c]]

\* no driver call has been made; acked: what the calls that succeeded tell
\* of the object at a path (nothing, put with a body, deleted)
IdleDriver ==
  [op |-> "none", s |-> None, path |-> << >>, offset |-> 0, length |-> 0,
   reply |-> << >>, old |-> ObjectAt(<< >>, << >>), err |-> NoErr,
   found |-> FALSE, data |-> << >>, size |-> 0,
   acked |-> [s \in {1, 2} |->
                [q \in DriverPaths |-> [kind |-> "none", body |-> << >>]]]]

\* the record of a call: its arguments, the object before it, the answer of
\* the remote, the values returned
DriverCall(op, s, path, reply, err) ==
  [IdleDriver EXCEPT !.op = op, !.s = s, !.path = path, !.reply = reply,
                     !.old = ObjectAt(store[s], path), !.err = err,
                     !.acked = drv.acked]

DriverFrame ==
  UNCHANGED <<now, cancelled, storages, jobs, nextId, reader, config, proc, fan,
              active, clean, bk, sch, db>>

\* gowebdav's error for a request answered with a status that is not a
\* success: an *os.PathError, whose text is "<op> <path>: <status>"
PathError(op, path, status) == <<op, " ">> \o path \o <<":", " ">> \o status

\* the HTTP statuses of the answers of a WebDAV server, as the characters
\* gowebdav prints them
Status ==
  [ok |-> <<"2", "0", "0">>, notFound |-> <<"4", "0", "4">>,
   error |-> <<"5", "0", "0">>]

\* the answers to a request about a path: the truthful one for the state of
\* the object, or a server error
WebDAVStatuses(present) ==
  {IF present THEN Status.ok ELSE Status.notFound, Status.error}

\* webdav.go 61-72: Upload reads the reader to its end and writes the bytes
\* at path; the write replaces the object or fails
WebDAVProvider_Upload(s, path, body) ==
  /\ storages[s].type = "webdav"
  /\ \E status \in {Status.ok, Status.error} :
       IF status = Status.ok
       THEN /\ store' = [store EXCEPT ![s] = (path :> body) @@ @]
            /\ drv' = [DriverCall("Upload", s, path, status, NoErr) EXCEPT
                         !.data = body,
                         !.acked[s][path] = [kind |-> "put", body |-> body]]
       ELSE /\ drv' = [DriverCall("Upload", s, path, status,
                          <<"failed to upload to WebDAV: ">> \o
                            PathError("Write", path, status)) EXCEPT
                         !.data = body]
            /\ UNCHANGED store
  /\ DriverFrame

\* webdav.go 74-81
WebDAVProvider_Download(s, path) ==
  /\ storages[s].type = "webdav"
  /\ \E status \in WebDAVStatuses(path \in DOMAIN store[s]) :
       drv' = IF status = Status.ok
              THEN [DriverCall("Download", s, path, status, NoErr) EXCEPT
                      !.data = store[s][path]]
              ELSE DriverCall("Download", s, path, status,
                      <<"failed to download from WebDAV: ">> \o
                        PathError("ReadStream", path, status))
  /\ UNCHANGED store
  /\ DriverFrame

\* webdav.go 83-88: client.Remove; gowebdav takes 200, 204 and 404 as done
WebDAVProvider_Delete(s, path) ==
  /\ storages[s].type = "webdav"
  /\ \E status \in WebDAVStatuses(path \in DOMAIN store[s]) :
       IF status # Status.error
       THEN /\ store' = [store EXCEPT ![s] = DeleteRows(@, {path})]
            /\ drv' = [DriverCall("Delete", s, path, status, NoErr) EXCEPT
                         !.acked[s][path] = [kind |-> "deleted", body |-> << >>]]
       ELSE /\ drv' = DriverCall("Delete", s, path, status,
                         <<"failed to delete from WebDAV: ">> \o
                           PathError("Remove", path, status))
            /\ UNCHANGED store
  /\ DriverFrame

\* webdav.go 109: strings.Contains(err.Error(), "404")
WebDAVNotFound(err) == Contains(err, Status.notFound)

\* webdav.go 106-116
WebDAVProvider_Exists(s, path) ==
  /\ storages[s].type = "webdav"
  /\ \E status \in WebDAVStatuses(path \in DOMAIN store[s]) :
       LET err == PathError("Stat", path, status) IN
       drv' = IF status = Status.ok
              THEN [DriverCall("Exists", s, path, status, NoErr) EXCEPT
                      !.found = TRUE]
              ELSE IF WebDAVNotFound(err)
              THEN DriverCall("Exists", s, path, status, NoErr)
              ELSE DriverCall("Exists", s, path, status,
                      <<"failed to check WebDAV file existence: ">> \o err)
  /\ UNCHANGED store
  /\ DriverFrame

\* the error codes of an S3 answer: NotFound is the service's answer to a
\* HeadObject of an absent key, NoSuchKey its answer to a GetObject of one;
\* the client of s3_test.go answers both requests with NoSuchKey
S3HeadReplies(present) ==
  IF present THEN {<<"ok">>, <<"AccessDenied">>}
  ELSE {<<"NotFound">>, <<"NoSuchKey">>, <<"AccessDenied">>}

\* s3.go 96-108
S3Provider_Upload(s, path, body) ==
  /\ storages[s].type = "s3"
  /\ \E reply \in {<<"ok">>, <<"AccessDenied">>} :
       IF reply = <<"ok">>
       THEN /\ store' = [store EXCEPT ![s] = (path :> body) @@ @]
            /\ drv' = [DriverCall("Upload", s, path, reply, NoErr) EXCEPT
                         !.data = body,
                         !.acked[s][path] = [kind |-> "put", body |-> body]]
       ELSE /\ drv' = [DriverCall("Upload", s, path, reply,
                          <<"failed to upload to S3: ">> \o reply) EXCEPT
                         !.data = body]
            /\ UNCHANGED store
  /\ DriverFrame

\* s3.go 110-121
S3Provider_Download(s, path) ==
  /\ storages[s].type = "s3"
  /\ \E reply \in {IF path \in DOMAIN store[s] THEN <<"ok">> ELSE <<"NoSuchKey">>,
                   <<"AccessDenied">>} :
       drv' = IF reply = <<"ok">>
              THEN [DriverCall("Download", s, path, reply, NoErr) EXCEPT
                      !.data = store[s][path]]
              ELSE DriverCall("Download", s, path, reply,
                      <<"failed to download from S3: ">> \o reply)
  /\ UNCHANGED store
  /\ DriverFrame

\* s3.go 123-134: DeleteObject succeeds whether or not the key exists
S3Provider_Delete(s, path) ==
  /\ storages[s].type = "s3"
  /\ \E reply \in {<<"ok">>, <<"AccessDenied">>} :
       IF reply = <<"ok">>
       THEN /\ store' = [store EXCEPT ![s] = DeleteRows(@, {path})]
            /\ drv' = [DriverCall("Delete", s, path, reply, NoErr) EXCEPT
                         !.acked[s][path] = [kind |-> "deleted", body |-> << >>]]
       ELSE /\ drv' = DriverCall("Delete", s, path, reply,
                         <<"failed to delete from S3: ">> \o reply)
            /\ UNCHANGED store
  /\ DriverFrame

\* s3.go 164-167 / 208-211: errors.As(err, &nf) with nf *types.NotFound
S3NotFound(reply) == reply = <<"NotFound">>

\* s3.go 156-172
S3Provider_Exists(s, path) ==
  /\ storages[s].type = "s3"
  /\ \E reply \in S3HeadReplies(path \in DOMAIN store[s]) :
       drv' = IF reply = <<"ok">>
              THEN [DriverCall("Exists", s, path, reply, NoErr) EXCEPT
                      !.found = TRUE]
              ELSE IF S3NotFound(reply)
              THEN DriverCall("Exists", s, path, reply, NoErr)
              ELSE DriverCall("Exists", s, path, reply,
                      <<"failed to check S3 object existence: ">> \o reply)
  /\ UNCHANGED store
  /\ DriverFrame

\* s3.go 200-220
S3Provider_GetFileSize(s, path) ==
  /\ storages[s].type = "s3"
  /\ \E reply \in S3HeadReplies(path \in DOMAIN store[s]) :
       drv' = IF reply = <<"ok">>
              THEN [DriverCall("GetFileSize", s, path, reply, NoErr) EXCEPT
                      !.size = Len(store[s][path])]
              ELSE IF S3NotFound(reply)
              THEN DriverCall("GetFileSize", s, path, reply, NoErr)
              ELSE DriverCall("GetFileSize", s, path, reply,
                      <<"failed to get S3 object size: ">> \o reply)
  /\ UNCHANGED store
  /\ DriverFrame

\* the body of the answer of the service to GetObject with
\* "Range: bytes=first-last" on an object of which some byte is in the range:
\* the bytes first..min(last, n-1), counted from 0
S3RangeBody(body, first, last) ==
  LET end == IF last < Len(body) - 1 THEN last ELSE Len(body) - 1
  IN SubSeq(body, first + 1, end + 1)

\* s3.go 182-197: the range sent is bytes=offset-(offset+length-1); when no
\* byte of the object is in the range (offset >= n) the service answers with
\* the error InvalidRange (status 416)
S3Provider_DownloadPart(s, path, offset, length) ==
  /\ storages[s].type = "s3"
  /\ \E reply \in IF path \in DOMAIN store[s]
                  THEN {IF offset >= Len(store[s][path])
                        THEN <<"InvalidRange">> ELSE <<"ok">>,
                        <<"AccessDenied">>}
                  ELSE {<<"NoSuchKey">>, <<"AccessDenied">>} :
       drv' = IF reply = <<"ok">>
              THEN [DriverCall("DownloadPart", s, path, reply, NoErr) EXCEPT
                      !.offset = offset, !.length = length,
                      !.data = S3RangeBody(store[s][path], offset,
                                           offset + length - 1)]
              ELSE [DriverCall("DownloadPart", s, path, reply,
                       <<"failed to download part from S3: ">> \o reply) EXCEPT
                      !.offset = offset, !.length = length]
  /\ UNCHANGED store
  /\ DriverFrame

(***************************************************************************)
(* handler.Handler: CreateStorage, UpdateStorage, DeleteStorage and        *)
(* GetSyncJobs over the storage table, its two config tables and the job   *)
(* ledger.  A handler is one step: its statements run in one transaction,  *)
(* which is committed or rolled back as a whole.                           *)
(***************************************************************************)

\* most rows ever created in the storage table, and in each config table
MaxStorages == 2
MaxConfigs == 2

\* GetSyncJobs: Limit(50)
ListLimit == 50

\* form values: "" is a field left empty, "ftp" a type the schema does not
\* list; the config fields of the chosen type are all given ("full"), all
\* given but the password or secret key ("nosecret"), or a required one that
\* is not the secret is empty ("missing")
Forms ==
  [name : {"", "a"}, type : {"", "webdav", "s3", "ftp"}, enabled : BOOLEAN,
   fields : {"full", "nosecret", "missing"}]

\* where the database fails in a handler, if it does: when the transaction
\* is opened, at the statement on the storage row (a name that another row
\* has fails here: the name is unique), or at a later statement up to the
\* commit
TxFailures == {"none", "begin", "storage", "commit"}

\* the config tables of a daemon whose storages are not edited, and no
\* response yet
IdleDB ==
  [webdav |-> << >>, s3 |-> << >>, nextStorage |-> 1, nextWebdav |-> 1,
   nextS3 |-> 1, last |-> [op |-> "none", code |-> 0, id |-> None],
   listing |-> << >>]

\* WithWebdavConfig / WithS3Config: the rows of a config table whose storage
\* edge is the storage id
ConfigsOf(table, id) == {c \in DOMAIN table : table[c].storage = id}

\* the foreign keys of a table after storage id is deleted: the edges carry
\* no cascade annotation, so the key of a referring row is set to NULL
SetNull(table, id) ==
  [c \in DOMAIN table |->
     IF table[c].storage = id THEN [table[c] EXCEPT !.storage = None] ELSE table[c]]

AdminFrame ==
  UNCHANGED <<now, cancelled, nextId, store, reader, config, proc, fan,
              active, clean, bk, sch, drv>>

\* the handler answers with code and changes nothing (the deferred Rollback)
Rejected(op, id, code) ==
  /\ db' = [db EXCEPT !.last = [op |-> op, code |-> code, id |-> id]]
  /\ UNCHANGED <<storages, jobs>>

\* part_009 354-446; a type that is not webdav or s3 fails the validator of
\* field.Enum("type") when the storage row is saved
Handler_CreateStorage(name, type, enabled, fields) ==
  /\ db.nextStorage <= MaxStorages
  /\ db.nextWebdav <= MaxConfigs
  /\ db.nextS3 <= MaxConfigs
  /\ \E fail \in TxFailures :
       LET id == db.nextStorage
           code ==
             IF name = "" \/ type = "" THEN 400
             ELSE IF fail = "begin" THEN 500
             ELSE IF fail = "storage" \/ type \notin {"webdav", "s3"} THEN 500
             ELSE IF fields # "full" THEN 400
             ELSE IF fail = "commit" THEN 500
             ELSE 200
       IN IF code # 200 THEN Rejected("CreateStorage", None, code)
          ELSE /\ storages' = (id :> [name |-> name, type |-> type,
                                      enabled |-> enabled]) @@ storages
               /\ db' = [db EXCEPT
                    !.nextStorage = @ + 1,
                    !.webdav = IF type = "webdav"
                               THEN (db.nextWebdav :> [storage |-> id]) @@ @ ELSE @,
                    !.nextWebdav = IF type = "webdav" THEN @ + 1 ELSE @,
                    !.s3 = IF type = "s3"
                           THEN (db.nextS3 :> [storage |-> id]) @@ @ ELSE @,
                    !.nextS3 = IF type = "s3" THEN @ + 1 ELSE @,
                    !.last = [op |-> "CreateStorage", code |-> 200, id |-> id]]
               /\ UNCHANGED jobs
  /\ AdminFrame

\* part_009 485-634: the storage row is updated, the config of the type of
\* the form is deleted if the storage has one, and a new one is created
Handler_UpdateStorage(id, name, type, enabled, fields) ==
  /\ db.nextWebdav <= MaxConfigs
  /\ db.nextS3 <= MaxConfigs
  /\ \E fail \in TxFailures :
       LET existing == IF type = "webdav" THEN ConfigsOf(db.webdav, id)
                       ELSE ConfigsOf(db.s3, id)
           code ==
             IF name = "" \/ type = "" THEN 400
             ELSE IF fail = "begin" THEN 500
             ELSE IF \/ fail = "storage"
                     \/ id \notin DOMAIN storages
                     \/ type \notin {"webdav", "s3"}
               THEN 500
             ELSE IF fields = "missing" THEN 400
             ELSE IF fields = "nosecret" /\ existing = {} THEN 400
             ELSE IF fail = "commit" THEN 500
             ELSE 200
       IN IF code # 200 THEN Rejected("UpdateStorage", id, code)
          ELSE /\ storages' = [storages EXCEPT ![id] =
                                 [name |-> name, type |-> type, enabled |-> enabled]]
               /\ db' = [db EXCEPT
                    !.webdav = IF type = "webdav"
                               THEN (db.nextWebdav :> [storage |-> id]) @@
                                      DeleteRows(@, existing)
                               ELSE @,
                    !.nextWebdav = IF type = "webdav" THEN @ + 1 ELSE @,
                    !.s3 = IF type = "s3"
                           THEN (db.nextS3 :> [storage |-> id]) @@
                                  DeleteRows(@, existing)
                           ELSE @,
                    !.nextS3 = IF type = "s3" THEN @ + 1 ELSE @,
                    !.last = [op |-> "UpdateStorage", code |-> 200, id |-> id]]
               /\ UNCHANGED jobs
  /\ AdminFrame

\* Mutant: deleting a storage deletes the jobs that refer to it.
DeletedJobs_Cascade(js, id) ==
  [j \in {k \in DOMAIN js : js[k].storage # id} |-> js[j]]

\* the ledger after storage id is deleted: edge.From("storage").Unique() of
\* SyncJob is optional and has no cascade annotation
DeletedJobs(js, id) == SetNull(js, id)

\* part_009 667-679: Storage.DeleteOneID(id).Exec and nothing else
Handler_DeleteStorage(id) ==
  /\ \E fail \in {"none", "storage"} :
       IF fail = "storage" \/ id \notin DOMAIN storages
       THEN Rejected("DeleteStorage", id, 500)
       ELSE /\ storages' = DeleteRows(storages, {id})
            /\ jobs' = DeletedJobs(jobs, id)
            /\ db' = [db EXCEPT !.webdav = SetNull(@, id),
                                !.s3 = SetNull(@, id),
                                !.last = [op |-> "DeleteStorage", code |-> 200,
                                          id |-> id]]
  /\ AdminFrame

\* Order(Desc(created_at)).Limit(50): the newest ListLimit rows
NewestJobs(js) ==
  {L \in SUBSET DOMAIN js :
     /\ Cardinality(L) = IF Cardinality(DOMAIN js) < ListLimit
                         THEN Cardinality(DOMAIN js) ELSE ListLimit
     /\ \A a \in L, b \in DOMAIN js \ L : js[a].created_at >= js[b].created_at}

\* part_009 795-808
Handler_GetSyncJobs ==
  /\ \E fail \in {"none", "storage"} :
       IF fail = "storage"
       THEN db' = [db EXCEPT !.last = [op |-> "GetSyncJobs", code |-> 500,
                                       id |-> None]]
       ELSE \E L \in NewestJobs(jobs) :
              db' = [db EXCEPT !.listing = [j \in L |-> jobs[j]],
                               !.last = [op |-> "GetSyncJobs", code |-> 200,
                                         id |-> None]]
  /\ UNCHANGED <<storages, jobs>>
  /\ AdminFrame

(***************************************************************************)
(* Environment.                                                            *)
(***************************************************************************)

Calls == {"one", "many", "restore", "cleanup", "cleanup2"}
Cleaners == {"cleanup", "cleanup2"}
Procs == {"one", "many", "restore"} \cup Workers
Uploaders == {"one"} \cup Workers

\* the context of call c is cancelled (shutdown, request abort)
Cancel(c) ==
  /\ c \in active
  /\ ~cancelled[c]
  /\ cancelled' = [cancelled EXCEPT ![c] = TRUE]
  /\ UNCHANGED <<now, storages, jobs, nextId, store, reader, config, proc, fan,
                 active, clean, bk, sch, drv, db>>

\* time passes
Tick ==
  /\ now < MaxNow
  /\ now' = now + 1
  /\ UNCHANGED <<cancelled, storages, jobs, nextId, store, reader, config, proc, fan,
                 active, clean, bk, sch, drv, db>>

\* the storageIDs lists handed to ConcurrentSyncToStorages: two sound targets
\* first; an absent and a disabled target first; a target whose provider
\* cannot be built first
TargetOrders == {<<1, 2, 5, 1>>, <<0, 3, 2, 1>>, <<4, 1, 2, 5>>}
TargetLists ==
  {SubSeq(o, 1, n) : o \in TargetOrders, n \in 0..NumTargets}

\* an archive uploaded by an earlier run
OldBackup == <<"vaultwarden-backup", 0, "zip">>

\* a ledger row left by an earlier run that completed at time t
OldJob(operation, t) ==
  [storage |-> 1, operation |-> operation, status |-> "completed",
   message |-> <<"Backup uploaded successfully", OldBackup>>,
   started_at |-> t, completed_at |-> t, created_at |-> t]

\* the first row id a run of the model allocates in the ledger l
FirstId(l) == Cardinality(DOMAIN l) + 1

\* the operations that run concurrently in one behaviour: one sync or
\* restore, alone or next to a retention pass
Scenarios ==
  {{"one"}, {"restore"}, {"many"}, {"one", "cleanup"}, {"restore", "cleanup"}}

\* the configuration snapshots tried for the operations a: the fan-out runs
\* every concurrency up to MaxConcurrency with max_retries 0 (the retry loop
\* of a worker is the loop of SyncToStorage), the other operations run every
\* max_retries up to MaxRetries; a sync that runs alone is also tried with a
\* backup password, without retries and with concurrency 1
Configs(a) ==
  (IF "many" \in a
   THEN {[maxRetries |-> 0, concurrency |-> c, password |-> "",
           retention_days |-> 1, interval |-> 0] :
           c \in 1..MaxConcurrency}
   ELSE {[maxRetries |-> r, concurrency |-> 1, password |-> "",
           retention_days |-> 1, interval |-> 0] :
           r \in 0..MaxRetries})
  \cup {[maxRetries |-> 0, concurrency |-> 1, password |-> "p",
          retention_days |-> 1, interval |-> 0] :
          s \in {a} \cap {{"one"}, {"many"}}}

InitCommon ==
  /\ cancelled = [c \in Calls |-> FALSE]
  /\ storages = StorageTable
  /\ reader = [c \in {"one", "many"} |-> None]
  /\ proc = [p \in Procs |-> IdleProc]
  /\ fan = [storageIDs |-> <<>>, semaphore |-> 0, wg |-> 0, errChan |-> <<>>]
  /\ clean = [c \in Cleaners |-> IdleClean]

\* The ledger holds batchSize rows of old runs; remote 1 holds an old archive,
\* remotes 2 and 5 hold an archive uploaded within the current second.  The
\* data directory exists, or, for a sync that runs alone, may be missing.
Init ==
  /\ InitCommon
  /\ now = MaxNow
  /\ jobs = [id \in 1..batchSize |->
               OldJob(IF id = 1 THEN "backup" ELSE "restore", 0)]
  /\ nextId = batchSize + 1
  /\ store = [s \in StorageIDs |->
                IF s = 1 THEN OldBackup :> Archive
                ELSE IF s \in {2, 5} THEN CheckFilename(MaxNow) :> Archive
                ELSE << >>]
  /\ active \in Scenarios
  /\ config \in Configs(active)
  /\ bk \in {IdleBackup} \cup
            {[IdleBackup EXCEPT !.missing = TRUE] : a \in {active} \cap {{"one"}, {"many"}}}
  /\ sch = IdleSched
  /\ drv = IdleDriver
  /\ db = IdleDB

Next ==
  \/ \E id \in StorageIDs \cup {AbsentID} : SyncToStorage_Get(id)
  \/ SyncToStorage_Create
  \/ SyncToStorage_MarkRunning
  \/ SyncToStorage_ProviderFailed
  \/ SyncToStorage_Check
  \/ SyncToStorage_CheckFailed
  \/ SyncToStorage_Build
  \/ SyncToStorage_BuildFailed
  \/ SyncToStorage_Using
  \/ SyncToStorage_Uploading
  \/ \E ids \in TargetLists : ConcurrentSyncToStorages_Start(ids)
  \/ \E w \in Workers : Worker_Acquire(w)
  \/ \E w \in Workers : syncToStorageWithBackup_Get(w)
  \/ \E w \in Workers : syncToStorageWithBackup_Create(w)
  \/ \E w \in Workers : syncToStorageWithBackup_MarkRunning(w)
  \/ \E w \in Workers : syncToStorageWithBackup_ProviderFailed(w)
  \/ \E w \in Workers : Worker_Release(w)
  \/ ConcurrentSyncToStorages_Collect
  \/ \E p \in Uploaders : uploadWithBackoff_RetryUpd(p)
  \/ \E p \in Uploaders : uploadWithBackoff_Sleep(p)
  \/ \E p \in Uploaders : uploadWithResume_Probe(p)
  \/ \E p \in Uploaders : Upload_ReadLoad(p)
  \/ \E p \in Uploaders : Upload_ReadCopy(p)
  \/ \E p \in Uploaders : Upload_Write(p)
  \/ \E p \in Uploaders : Sync_UploadFailed(p)
  \/ \E p \in Uploaders : Sync_Complete(p)
  \/ \E id \in StorageIDs \cup {AbsentID}, f \in {OldBackup, CheckFilename(MaxNow)} :
        RestoreFromStorage_Get(id, f)
  \/ RestoreFromStorage_Create
  \/ RestoreFromStorage_MarkRunning
  \/ RestoreFromStorage_ProviderFailed
  \/ RestoreFromStorage_RetryUpd
  \/ RestoreFromStorage_Sleep
  \/ RestoreFromStorage_Download
  \/ RestoreFromStorage_DownloadFailed
  \/ RestoreFromStorage_Extracting
  \/ RestoreFromStorage_Extract
  \/ RestoreFromStorage_ExtractFailed
  \/ RestoreFromStorage_Complete
  \/ CleanupOldSyncJobs_Start("cleanup")
  \/ CleanupOldSyncJobs_Query("cleanup")
  \/ CleanupOldSyncJobs_Delete("cleanup")
  \/ CleanupOldSyncJobs_Pause("cleanup")
  \/ \E c \in Calls : Cancel(c)

Spec == Init /\ [][Next]_vars

\* One sync or one restore while the clock runs from 0 to MaxNow: the ledger
\* holds the rows of old runs, remote 1 an old archive, remote 2 an archive
\* named for second 0.
InitClock ==
  /\ InitCommon
  /\ now = 0
  /\ jobs = [id \in 1..batchSize |->
               OldJob(IF id = 1 THEN "backup" ELSE "restore", 0)]
  /\ nextId = batchSize + 1
  /\ store = [s \in StorageIDs |->
                IF s = 1 THEN OldBackup :> Archive
                ELSE IF s = 2 THEN CheckFilename(0) :> Archive
                ELSE << >>]
  /\ active \in {{"one"}, {"restore"}}
  /\ config \in {[maxRetries |-> r, concurrency |-> 1, password |-> "",
                  retention_days |-> 1, interval |-> 0] : r \in 0..MaxRetries}
  /\ bk = IdleBackup
  /\ sch = IdleSched
  /\ drv = IdleDriver
  /\ db = IdleDB

NextClock ==
  \/ \E id \in {1, 2, 4} : SyncToStorage_Get(id)
  \/ SyncToStorage_Create
  \/ SyncToStorage_MarkRunning
  \/ SyncToStorage_ProviderFailed
  \/ SyncToStorage_Check
  \/ SyncToStorage_CheckFailed
  \/ SyncToStorage_Build
  \/ SyncToStorage_BuildFailed
  \/ SyncToStorage_Using
  \/ SyncToStorage_Uploading
  \/ uploadWithBackoff_RetryUpd("one")
  \/ uploadWithBackoff_Sleep("one")
  \/ uploadWithResume_Probe("one")
  \/ Upload_ReadLoad("one")
  \/ Upload_ReadCopy("one")
  \/ Upload_Write("one")
  \/ Sync_UploadFailed("one")
  \/ Sync_Complete("one")
  \/ \E id \in {1, 4} : RestoreFromStorage_Get(id, OldBackup)
  \/ RestoreFromStorage_Create
  \/ RestoreFromStorage_MarkRunning
  \/ RestoreFromStorage_ProviderFailed
  \/ RestoreFromStorage_RetryUpd
  \/ RestoreFromStorage_Sleep
  \/ RestoreFromStorage_Download
  \/ RestoreFromStorage_DownloadFailed
  \/ RestoreFromStorage_Extracting
  \/ RestoreFromStorage_Extract
  \/ RestoreFromStorage_ExtractFailed
  \/ RestoreFromStorage_Complete
  \/ Tick

SpecClock == InitClock /\ [][NextClock]_vars

\* Two retention passes (the scheduled one and the one an administrator
\* starts) over a ledger of up to MaxJobs rows created at times 0 and 1,
\* while the clock runs from 1 to MaxNow.
InitCleanup ==
  /\ InitCommon
  /\ now = 1
  /\ \E n \in 0..MaxJobs :
       jobs \in [1..n -> {OldJob("backup", t) : t \in 0..1}]
  /\ nextId = FirstId(jobs)
  /\ store = [s \in StorageIDs |-> << >>]
  /\ active = Cleaners
  /\ config \in {[maxRetries |-> 0, concurrency |-> 1, password |-> "",
                  retention_days |-> d, interval |-> 0] : d \in -1..1}
  /\ bk = IdleBackup
  /\ sch = IdleSched
  /\ drv = IdleDriver
  /\ db = IdleDB

NextCleanup ==
  \/ \E c \in Cleaners : CleanupOldSyncJobs_Start(c)
  \/ \E c \in Cleaners : CleanupOldSyncJobs_Query(c)
  \/ \E c \in Cleaners : CleanupOldSyncJobs_Delete(c)
  \/ \E c \in Cleaners : CleanupOldSyncJobs_Pause(c)
  \/ \E c \in Cleaners : Cancel(c)
  \/ Tick

SpecCleanup == InitCleanup /\ [][NextCleanup]_vars

\* A pass that has been called keeps running: its goroutine is scheduled,
\* every statement sent to the database returns, and the 100 ms timer fires.
CleanupOldSyncJobs_Step(c) ==
  \/ CleanupOldSyncJobs_Query(c)
  \/ CleanupOldSyncJobs_Delete(c)
  \/ CleanupOldSyncJobs_Pause(c)

SpecCleanupFair ==
  SpecCleanup /\ \A c \in Cleaners : WF_vars(CleanupOldSyncJobs_Step(c))

\* The backup service alone: it archives a data directory of up to MaxFiles
\* regular files, or one that does not exist, and extracts the archive into
\* an empty directory, or it extracts an archive built elsewhere with up to
\* MaxFiles entries.
DataDirs ==
  UNION {[S -> Contents] : S \in {T \in SUBSET FileNames : Cardinality(T) <= MaxFiles}}

ForeignArchives ==
  UNION {[1..n -> [name : EntryNames, body : Contents]] : n \in 0..MaxFiles}

InitBackup ==
  /\ InitCommon
  /\ now = 0
  /\ jobs = << >>
  /\ nextId = 1
  /\ store = [s \in StorageIDs |-> << >>]
  /\ active = {}
  /\ config \in {[maxRetries |-> 0, concurrency |-> 1, password |-> pw,
                  retention_days |-> 0, interval |-> 0] : pw \in Passwords}
  /\ bk \in {[IdleBackup EXCEPT !.src = "build", !.dir = d] : d \in DataDirs}
        \cup {[IdleBackup EXCEPT !.src = "build", !.missing = TRUE]}
        \cup {[IdleBackup EXCEPT !.src = "foreign", !.pc = "built", !.blob = ZipOf(e)] :
                e \in ForeignArchives}
  /\ sch = IdleSched
  /\ drv = IdleDriver
  /\ db = IdleDB

NextBackup ==
  \/ CreateBackup
  \/ \E xpw \in Passwords : ExtractBackup_Open(xpw)
  \/ ExtractBackup_Entry
  \/ ExtractBackup_Return

SpecBackup == InitBackup /\ [][NextBackup]_vars

\* The backup service over a data directory that holds, besides its regular
\* files, up to MaxFiles nodes of other kinds; no password is set.
DataNodes ==
  UNION {[S -> SpecialKinds] :
           S \in {T \in SUBSET SpecialNames : Cardinality(T) <= MaxFiles}}

InitWalk ==
  /\ InitCommon
  /\ now = 0
  /\ jobs = << >>
  /\ nextId = 1
  /\ store = [s \in StorageIDs |-> << >>]
  /\ active = {}
  /\ config = [maxRetries |-> 0, concurrency |-> 1, password |-> "",
               retention_days |-> 0, interval |-> 0]
  /\ bk \in {[IdleBackup EXCEPT !.src = "build", !.dir = d, !.nodes = n] :
               d \in DataDirs, n \in DataNodes}
  /\ sch = IdleSched
  /\ drv = IdleDriver
  /\ db = IdleDB

SpecWalk == InitWalk /\ [][NextBackup]_vars

\* The storage tables of the scheduled daemon: one enabled storage, or an
\* enabled storage and a disabled one whose settings are broken; an
\* administrator may switch each.
SchedulerTables ==
  {[id \in {1} |-> StorageTable[1]],
   [id \in {1, 4} |-> IF id = 1 THEN StorageTable[1]
                      ELSE [StorageTable[4] EXCEPT !.enabled = FALSE]]}

\* The scheduler over a ledger of batchSize rows of old runs; each timer is
\* on or off, and with two storages at most one timer is on.
InitScheduler ==
  /\ cancelled = [c \in Calls |-> FALSE]
  /\ storages \in SchedulerTables
  /\ reader = [c \in {"one", "many"} |-> None]
  /\ proc = [p \in Procs |-> IdleProc]
  /\ fan = [storageIDs |-> <<>>, semaphore |-> 0, wg |-> 0, errChan |-> <<>>]
  /\ clean = [c \in Cleaners |-> IdleClean]
  /\ now = MaxNow
  /\ jobs = [id \in 1..batchSize |-> OldJob("backup", 0)]
  /\ nextId = batchSize + 1
  /\ store = [s \in StorageIDs |-> << >>]
  /\ active = {"many", "cleanup"}
  /\ config \in {[maxRetries |-> 0, concurrency |-> 1, password |-> "",
                  retention_days |-> d, interval |-> i] : d \in 0..1, i \in 0..1}
  /\ Cardinality(DOMAIN storages) = 1 \/ config.interval = 0
                                       \/ config.retention_days = 0
  /\ bk = IdleBackup
  /\ sch = IdleSched
  /\ drv = IdleDriver
  /\ db = IdleDB

\* the steps of the sync loop and of the fan-out it runs
SyncLoopNext ==
  \/ SyncLoop_Tick
  \/ SyncLoop_Stop
  \/ runSync_Query
  \/ runSync_Call
  \/ ConcurrentSyncToStorages_Collect
  \/ runSync_Return

\* the steps of a worker of the fan-out (max_retries is 0: one attempt)
WorkerNext(w) ==
  \/ Worker_Acquire(w)
  \/ syncToStorageWithBackup_Get(w)
  \/ syncToStorageWithBackup_Create(w)
  \/ syncToStorageWithBackup_MarkRunning(w)
  \/ syncToStorageWithBackup_ProviderFailed(w)
  \/ uploadWithResume_Probe(w)
  \/ Upload_ReadLoad(w)
  \/ Upload_ReadCopy(w)
  \/ Upload_Write(w)
  \/ Sync_UploadFailed(w)
  \/ Sync_Complete(w)
  \/ Worker_Release(w)

\* the steps of the cleanup loop and of the retention pass it runs
CleanupLoopNext ==
  \/ CleanupLoop_Wake
  \/ CleanupLoop_Tick
  \/ CleanupLoop_Stop
  \/ runCleanup_Call
  \/ CleanupOldSyncJobs_Query("cleanup")
  \/ CleanupOldSyncJobs_Delete("cleanup")
  \/ CleanupOldSyncJobs_Pause("cleanup")
  \/ runCleanup_Return

NextScheduler ==
  \/ Start
  \/ Ticker_Fire
  \/ CleanupTicker_Fire
  \/ SyncLoopNext
  \/ \E w \in Workers : WorkerNext(w)
  \/ CleanupLoopNext
  \/ Stop
  \/ Start_CtxDone
  \/ \E id \in DOMAIN storages, enabled \in BOOLEAN : UpdateStorage(id, enabled)

SpecScheduler == InitScheduler /\ [][NextScheduler]_vars

\* The Go runtime runs every goroutine that can take a step: each loop and
\* each worker is scheduled again and again.
SpecSchedulerFair ==
  /\ SpecScheduler
  /\ WF_vars(SyncLoopNext)
  /\ WF_vars(CleanupLoopNext)
  /\ \A w \in Workers : WF_vars(WorkerNext(w))

\* One ConcurrentSyncToStorages call under every sync.concurrency of the
\* configuration from -1 to MaxConcurrency, without retries, over lists of up
\* to NumTargets targets.
InitMany ==
  /\ InitCommon
  /\ now = MaxNow
  /\ jobs = [id \in 1..batchSize |->
               OldJob(IF id = 1 THEN "backup" ELSE "restore", 0)]
  /\ nextId = batchSize + 1
  /\ store = [s \in StorageIDs |->
                IF s = 1 THEN OldBackup :> Archive ELSE << >>]
  /\ active = {"many"}
  /\ config \in {[maxRetries |-> 0, concurrency |-> c, password |-> "",
                  retention_days |-> 1, interval |-> 0] :
                  c \in -1..MaxConcurrency}
  /\ bk = IdleBackup
  /\ sch = IdleSched
  /\ drv = IdleDriver
  /\ db = IdleDB

\* the target lists of the call: the WebDAV and the S3 target first, then an
\* absent and a disabled one; a target whose provider cannot be built first
ManyLists ==
  {SubSeq(o, 1, n) : o \in {<<1, 2, 0, 3>>, <<4, 1, 3, 0>>}, n \in 0..NumTargets}

\* the steps of the call itself
ManyNext ==
  \/ \E ids \in ManyLists : ConcurrentSyncToStorages_Start(ids)
  \/ ConcurrentSyncToStorages_Collect

NextMany ==
  \/ ManyNext
  \/ \E w \in Workers : WorkerNext(w)

SpecMany == InitMany /\ [][NextMany]_vars

\* The call is made, every goroutine that can run is run, and every driver
\* call, ledger statement and timer comes back.
SpecManyFair ==
  /\ SpecMany
  /\ WF_vars(ManyNext)
  /\ \A w \in Workers : WF_vars(WorkerNext(w))

\* the drivers of storage 1 (WebDAV) and storage 2 (S3) over empty remotes
InitDriver ==
  /\ InitCommon
  /\ now = 0
  /\ jobs = << >>
  /\ nextId = 1
  /\ store = [s \in StorageIDs |-> << >>]
  /\ active = {}
  /\ config = [maxRetries |-> 0, concurrency |-> 1, password |-> "",
               retention_days |-> 0, interval |-> 0]
  /\ bk = IdleBackup
  /\ sch = IdleSched
  /\ drv = IdleDriver
  /\ db = IdleDB

NextDriver ==
  \E path \in DriverPaths :
    \/ \E body \in Bodies : WebDAVProvider_Upload(1, path, body)
    \/ WebDAVProvider_Download(1, path)
    \/ WebDAVProvider_Delete(1, path)
    \/ WebDAVProvider_Exists(1, path)
    \/ \E body \in Bodies : S3Provider_Upload(2, path, body)
    \/ S3Provider_Download(2, path)
    \/ S3Provider_Delete(2, path)
    \/ S3Provider_Exists(2, path)
    \/ S3Provider_GetFileSize(2, path)
    \/ \E offset \in 0..MaxLen, length \in 1..MaxLen :
         S3Provider_DownloadPart(2, path, offset, length)

SpecDriver == InitDriver /\ [][NextDriver]_vars

\* a daemon with one WebDAV storage and its config, and a ledger of three
\* jobs of that storage: completed, failed and running
InitAdmin ==
  /\ cancelled = [c \in Calls |-> FALSE]
  /\ reader = [c \in {"one", "many"} |-> None]
  /\ proc = [p \in Procs |-> IdleProc]
  /\ fan = [storageIDs |-> <<>>, semaphore |-> 0, wg |-> 0, errChan |-> <<>>]
  /\ clean = [c \in Cleaners |-> IdleClean]
  /\ storages = 1 :> [name |-> "a", type |-> "webdav", enabled |-> TRUE]
  /\ now = MaxNow
  /\ jobs = (1 :> OldJob("backup", 0)) @@
            (2 :> [OldJob("backup", 1) EXCEPT
                     !.status = "failed",
                     !.message = <<"Failed to upload backup after retries", "">>]) @@
            (3 :> [NewJob(1, "backup", MaxNow) EXCEPT
                     !.status = "running", !.started_at = MaxNow])
  /\ nextId = 4
  /\ store = [s \in StorageIDs |-> << >>]
  /\ active = {}
  /\ config = [maxRetries |-> 0, concurrency |-> 1, password |-> "",
               retention_days |-> 0, interval |-> 0]
  /\ bk = IdleBackup
  /\ sch = IdleSched
  /\ drv = IdleDriver
  /\ db = [IdleDB EXCEPT !.webdav = 1 :> [storage |-> 1],
                         !.nextStorage = 2, !.nextWebdav = 2]

NextAdmin ==
  \/ \E f \in Forms :
       \/ Handler_CreateStorage(f.name, f.type, f.enabled, f.fields)
       \/ \E id \in 1..MaxStorages :
            Handler_UpdateStorage(id, f.name, f.type, f.enabled, f.fields)
  \/ \E id \in 1..MaxStorages : Handler_DeleteStorage(id)
  \/ Handler_GetSyncJobs

SpecAdmin == InitAdmin /\ [][NextAdmin]_vars

(***************************************************************************)
(* Properties.                                                             *)
(***************************************************************************)

\* C1: whenever SyncToStorage, a worker (syncToStorageWithBackup) or
\* RestoreFromStorage has returned after creating a Job, that Job is
\* completed or failed.
C1_FinishedJobTerminal ==
  \A p \in {"one", "restore"} \cup Workers :
    (proc[p].pc \in {"done", "exited"} /\ proc[p].job \in DOMAIN jobs)
      => jobs[proc[p].job].status \in {"completed", "failed"}

\* C2: in every step a Job's status stays or moves pending -> running,
\* running -> completed or running -> failed, and the status, message and
\* completed_at of a completed or failed Job are not changed.
C2_StatusMonotonic ==
  [][\A id \in DOMAIN jobs \cap DOMAIN jobs' :
       /\ jobs'[id].status # jobs[id].status
            => <<jobs[id].status, jobs'[id].status>> \in
                 {<<"pending", "running">>, <<"running", "completed">>,
                  <<"running", "failed">>}
       /\ jobs[id].status \in {"completed", "failed"}
            => /\ jobs'[id].status = jobs[id].status
               /\ jobs'[id].message = jobs[id].message
               /\ jobs'[id].completed_at = jobs[id].completed_at]_vars

\* C2, its case: a worker has finished its Job while another worker's Job
\* is running
C2_Witness ==
  \E p, q \in Workers :
    /\ proc[p].pc = "exited" /\ proc[p].job \in DOMAIN jobs
    /\ jobs[proc[p].job].status \in {"completed", "failed"}
    /\ proc[q].job \in DOMAIN jobs
    /\ jobs[proc[q].job].status = "running"

\* C3: when ConcurrentSyncToStorages has returned nil, the store of every
\* target of the list holds the whole archive under the shared file name.
C3_EveryStoreHoldsArchive ==
  (proc["many"].pc = "done" /\ proc["many"].ret[1] = "ok")
    => \A k \in 1..Len(fan.storageIDs) :
         /\ proc["many"].filename \in DOMAIN store[fan.storageIDs[k]]
         /\ store[fan.storageIDs[k]][proc["many"].filename] = Archive

C5_ConcurrencyBound ==
  Cardinality({w \in Workers : proc[w].pc \notin {"idle", "acquire", "exited"}})
    <= config.concurrency

\* C5, its case: every slot is taken and a worker waits for one
C5_Witness ==
  /\ fan.semaphore = config.concurrency
  /\ Cardinality({w \in Workers : proc[w].pc \notin {"idle", "acquire", "exited"}})
       = config.concurrency
  /\ \E w \in Workers : proc[w].pc = "acquire"

\* C6 (as stated): ConcurrentSyncToStorages returns an error if and only if
\* a worker returned an error.
C6_Original ==
  proc["many"].pc = "done"
    => (proc["many"].ret[1] # "ok"
          <=> \E w \in Workers : proc[w].pc = "exited" /\ proc[w].ret[1] # "ok")

\* C6 (amended): ConcurrentSyncToStorages returns before it starts a worker
\* only for an empty list or a failed CreateBackup, both with an error; once
\* the workers are started it returns only after every one of them has
\* returned and given back its slot, and then with an error if and only if
\* a worker returned an error.  The slots taken are at all times those of
\* the workers still at work, so a worker that failed holds none back.
C6_WaitsAndAggregates ==
  /\ fan.semaphore =
       Cardinality({w \in Workers : proc[w].pc \notin {"idle", "acquire", "exited"}})
  /\ proc["many"].pc = "done"
    => IF proc["many"].builds = 0
       THEN /\ proc["many"].ret[1] \in {"no storage IDs provided",
                                        "failed to create backup"}
            /\ \A w \in Workers : proc[w].pc = "idle"
       ELSE /\ \A k \in 1..Len(fan.storageIDs) :
                 /\ proc[WorkerAt(k)].pc = "exited"
                 /\ proc[WorkerAt(k)].ret[1] # "none"
            /\ fan.semaphore = 0
            /\ proc["many"].ret[1] # "ok"
                 <=> \E k \in 1..Len(fan.storageIDs) :
                       proc[WorkerAt(k)].ret[1] # "ok"

\* C6, its case: the call has returned an error, one worker failed and
\* another one uploaded
C6_Witness ==
  /\ proc["many"].pc = "done" /\ proc["many"].ret[1] = "sync failed"
  /\ \E v, w \in Workers :
       /\ proc[v].pc = "exited" /\ proc[v].ret[1] = "ok"
       /\ proc[w].pc = "exited" /\ proc[w].ret[1] # "ok"

\* C7: when the context is cancelled during the backoff sleep of the upload
\* of SyncToStorage, the Job ends failed with a message that names the
\* cancellation.
C7_CancelledJobFailed ==
  (/\ proc["one"].pc = "done"
   /\ proc["one"].ret[1] = "failed to upload backup after retries"
   /\ proc["one"].err[1] = "context canceled")
    => /\ proc["one"].job \in DOMAIN jobs
       /\ jobs[proc["one"].job].status = "failed"
       /\ jobs[proc["one"].job].message =
            <<"Failed to upload backup after retries", "context canceled">>

\* C8: once a retention pass with retention_days > 0 has returned nil and
\* no pass is running, no Job created before the cutoff of that pass is left.
C8_OldJobsDeleted ==
  \A c \in Cleaners :
    (/\ config.retention_days > 0
     /\ clean[c].pc = "done" /\ clean[c].ret = "ok"
     /\ \A d \in Cleaners : clean[d].pc \in {"idle", "done"})
      => OlderThan(jobs, clean[c].cutoffTime) = {}

\* C9: SyncToStorage, or a worker, that has returned for a storage that is
\* absent or disabled has returned an error, has created no Job, built no
\* archive and called no storage driver; no Job of that storage is in the
\* ledger.
C9_FailFast ==
  \A p \in {"one"} \cup Workers :
    (/\ proc[p].pc \in {"done", "exited"}
     /\ \/ proc[p].storageID \notin DOMAIN storages
        \/ ~storages[proc[p].storageID].enabled)
      => /\ proc[p].ret[1] \in {"failed to get storage", "storage is disabled"}
         /\ proc[p].job = None
         /\ proc[p].calls = 0
         /\ proc[p].builds = 0
         /\ \A id \in DOMAIN jobs : jobs[id].storage # proc[p].storageID

\* C9, its case: a worker has returned for an absent storage and another
\* one for a disabled storage
C9_Witness ==
  \E v, w \in Workers :
    /\ proc[v].pc = "exited" /\ proc[v].storageID = AbsentID
    /\ proc[v].ret[1] = "failed to get storage"
    /\ proc[w].pc = "exited" /\ proc[w].storageID \in DOMAIN storages
    /\ ~storages[proc[w].storageID].enabled
    /\ proc[w].ret[1] = "storage is disabled"

\* C10: when SyncToStorage has returned nil, the ledger holds exactly one
\* Job of the target created by this run, it is completed, its message names
\* the archive file, and the store of the target holds the whole archive
\* under that name.
C10_SuccessfulSync ==
  (proc["one"].pc = "done" /\ proc["one"].ret[1] = "ok")
    => /\ proc["one"].job \in DOMAIN jobs
       /\ jobs[proc["one"].job].status = "completed"
       /\ jobs[proc["one"].job].message =
            <<"Backup uploaded successfully", proc["one"].filename>>
       /\ Cardinality({id \in DOMAIN jobs :
                         /\ id > batchSize
                         /\ jobs[id].storage = proc["one"].storageID}) = 1
       /\ proc["one"].filename \in DOMAIN store[proc["one"].storageID]
       /\ store[proc["one"].storageID][proc["one"].filename] = Archive

\* C11: when ConcurrentSyncToStorages has returned an error, the Job of
\* every worker that returned nil is completed and the Job of every worker
\* that returned an error after creating one is failed, with the message of
\* a failure (stated for the targets that got a Job; a target that is absent
\* or disabled gets none).
C11_FailedFanOutJobs ==
  (proc["many"].pc = "done" /\ proc["many"].ret[1] = "sync failed")
    => \A k \in 1..Len(fan.storageIDs) :
         LET w == WorkerAt(k) IN
         proc[w].job \in DOMAIN jobs
           => IF proc[w].ret[1] = "ok"
              THEN jobs[proc[w].job].status = "completed"
              ELSE /\ jobs[proc[w].job].status = "failed"
                   /\ jobs[proc[w].job].message[1] \in
                        {"Failed to create storage provider",
                         "Failed to upload backup after retries"}

\* C12: when an archive built without a password from a data directory has
\* been extracted without a password into an empty directory, the
\* directory holds exactly the regular files of the data directory, under
\* the same relative paths and with the same bytes.
C12_PlainRoundTrip ==
  (/\ bk.src = "build" /\ bk.pw = "" /\ bk.xpw = ""
   /\ bk.pc = "done" /\ bk.err = "")
    => /\ DOMAIN bk.dest = {Join(n).path : n \in DOMAIN bk.dir}
       /\ \A n \in DOMAIN bk.dir : bk.dest[Join(n).path] = bk.dir[n]
       /\ ~bk.outside

\* C13: DecryptData gives back the bytes encryptData sealed under the same
\* password, and when an archive built with a password P from a data
\* directory has been extracted with P, the destination holds exactly the
\* regular files of the data directory.
C13_EncryptedRoundTrip ==
  (bk.src = "build" /\ bk.pw # "" /\ bk.pc \in {"built", "extract", "done"})
    => /\ DecryptData(bk.blob, bk.pw) =
            [err |-> "", data |-> ZipOf(createZipArchive(bk.dir))]
       /\ (bk.pc = "done" /\ bk.xpw = bk.pw /\ bk.err = "")
            => /\ DOMAIN bk.dest = {Join(n).path : n \in DOMAIN bk.dir}
               /\ \A n \in DOMAIN bk.dir : bk.dest[Join(n).path] = bk.dir[n]

\* C14: the extraction of an archive built with a password P by a service
\* with another password (or none) ends with an error before the first
\* entry, and nothing is written.
C14_WrongPassword ==
  (/\ bk.src = "build" /\ bk.pw # ""
   /\ bk.pc \in {"extract", "done"} /\ bk.xpw # bk.pw)
    => /\ bk.pc = "done"
       /\ bk.err \in {"failed to decrypt backup", "failed to create zip reader"}
       /\ bk.dest = << >>
       /\ ~bk.outside

\* C14, its case: a data directory with files, archived with one password,
\* was handed to a service with another password
C14_Witness ==
  /\ bk.src = "build" /\ bk.pc = "done" /\ DOMAIN bk.dir # {}
  /\ bk.pw # "" /\ bk.xpw # "" /\ bk.xpw # bk.pw

\* C15: when the extraction of an archive has returned nil, nothing was
\* created outside the destination, and every file entry whose name has no
\* ".." segment is in the destination.
C15_DotDotOnly ==
  (bk.pc = "done" /\ bk.err = "")
    => /\ ~bk.outside
       /\ \A i \in 1..Len(bk.entries) :
            LET name == bk.entries[i].name IN
            (/\ \A k \in 1..Len(Split(name)) : Split(name)[k] # <<".", ".">>
             /\ name[Len(name)] # "/")
              => Join(name).path \in DOMAIN bk.dest

\* C16: Stop returns only after the fan-out that was in flight when Stop was
\* called has completed or aborted: once stopChan is closed, Stop has
\* returned, and no fan-out that was running at the call is still running.
C16_StopWaits ==
  sch.stopChan = "closed" => ~sch.inflight

\* C17: after Stop the scheduler starts no further sync cycle and no further
\* retention pass, the initial cleanup after the one-minute sleep included.
C17_NothingStartsAfterStop ==
  [][sch.stopChan = "closed" =>
       /\ sch'.cycles = sch.cycles
       /\ sch'.passes = sch.passes]_vars

C19_Original ==
  (sch.sync = "fanout" /\ proc["many"].pc = "wait" /\ sch.C = 1)
     => ENABLED SyncLoop_Tick

\* C19 (amended): while a cycle is running no other cycle starts, and a tick
\* that fired in the meantime stays pending.
C19_OneCycleAtATime ==
  [][sch.sync \in {"query", "fanout"} =>
       /\ sch'.cycles = sch.cycles
       /\ sch.C = 1 => sch'.C = 1]_vars

\* a tick is pending while the fan-out of the previous tick is running
C19_Witness ==
  /\ sch.sync = "fanout"
  /\ proc["many"].pc = "wait"
  /\ sch.C = 1

\* C20: with interval <= 0 no sync cycle is started and with
\* history_retention_days <= 0 no retention pass, whatever the other setting
\* is; the Jobs a cycle creates belong to storages that were enabled when the
\* cycle enumerated them.
C20_TimersAndTargets ==
  /\ config.interval <= 0 =>
       sch.cycles = 0 /\ sch.ticker = "nil" /\ sch.sync = "none"
  /\ config.retention_days <= 0 =>
       sch.passes = 0 /\ sch.cleanupTicker = "nil" /\ sch.cleanup = "none"
  /\ sch.cycles > 0 =>
       \A id \in DOMAIN jobs :
          id >= sch.firstJob => jobs[id].storage \in sch.enabledThen

\* a cycle has created a Job while a storage that was disabled when the
\* cycle enumerated the storages is enabled by now
C20_Witness ==
  /\ sch.sync = "fanout"
  /\ \E id \in DOMAIN jobs : id >= sch.firstJob
  /\ \E s \in DOMAIN storages : storages[s].enabled /\ s \notin sch.enabledThen

\* C21: with retention_days <= 0 a retention pass, the scheduled one or the
\* one an administrator starts, changes no row of the ledger and returns
\* success.
C21_DisabledRetention ==
  [][config.retention_days <= 0 =>
       /\ jobs' = jobs
       /\ \A c \in Cleaners : clean'[c].pc = "done" => clean'[c].ret = "ok"]_vars

\* both passes have returned with retention disabled, over a ledger that
\* holds a row older than the clock
C21_Witness ==
  /\ config.retention_days <= 0
  /\ \A c \in Cleaners : clean[c].pc = "done"
  /\ \E id \in DOMAIN jobs : jobs[id].created_at < now

\* C22: RestoreFromStorage for an absent storage fails without creating a
\* Job; for an existing storage, enabled or not, its Job has operation
\* restore and is completed when the call succeeded, failed when the download
\* or the extraction failed.
C22_RestoreJob ==
  LET r == proc["restore"] IN
  r.pc = "done" =>
    /\ r.storageID \notin DOMAIN storages =>
         r.ret[1] = "failed to get storage" /\ r.job = None /\ nextId = batchSize + 1
    /\ r.ret[1] \in {"ok", "failed to download backup after retries",
                     "failed to extract backup"} =>
         /\ r.job \in DOMAIN jobs
         /\ nextId = batchSize + 2
         /\ jobs[r.job].operation = "restore"
         /\ jobs[r.job].storage = r.storageID
         /\ jobs[r.job].status = IF r.ret[1] = "ok" THEN "completed" ELSE "failed"

\* C23: for every storage driver, once an upload to a path has succeeded, an
\* Exists of the path that returns no error returns true and a Download that
\* returns no error returns exactly the uploaded bytes; once a delete has
\* succeeded, an Exists that returns no error returns false; an upload that
\* returns an error leaves the object at the path as it was.
C23_UploadDeleteContract ==
  drv.op # "none" =>
    LET a == drv.acked[drv.s][drv.path] IN
    /\ (drv.op = "Exists" /\ drv.err = NoErr /\ a.kind = "put") => drv.found
    /\ (drv.op = "Download" /\ drv.err = NoErr /\ a.kind = "put") =>
         drv.data = a.body
    /\ (drv.op = "Exists" /\ drv.err = NoErr /\ a.kind = "deleted") => ~drv.found
    /\ (drv.op = "Upload" /\ drv.err # NoErr) =>
         ObjectAt(store[drv.s], drv.path) = drv.old

\* C24: for every storage driver, Exists returns (false, no error) and the
\* size query returns (0, no error) when the remote reports the object as not
\* found (WebDAV: status 404; S3: NotFound or NoSuchKey), and any other error
\* of the remote is returned as an error.
C24_NotFoundIsNoError ==
  drv.op \in {"Exists", "GetFileSize"} =>
    /\ drv.reply \in {Status.notFound, <<"NotFound">>, <<"NoSuchKey">>} =>
         drv.err = NoErr /\ ~drv.found /\ drv.size = 0
    /\ drv.reply \in {Status.error, <<"AccessDenied">>} => drv.err # NoErr

\* C25: a range read (DownloadPart) of an object of n bytes at offset o >= 0
\* with length l > 0, answered by the remote, returns without error exactly
\* the bytes at the positions [o, min(o+l, n)) of the object: none when o >= n.
C25_RangeRead ==
  (drv.op = "DownloadPart" /\ drv.old.present /\ drv.reply # <<"AccessDenied">>) =>
    LET n == Len(drv.old.body)
        end == IF drv.offset + drv.length < n THEN drv.offset + drv.length ELSE n
    IN /\ drv.err = NoErr
       /\ drv.data = SubSeq(drv.old.body, drv.offset + 1, end)

\* C26: no handler step, the deletion of a storage included, removes a Job
\* from the ledger or changes its status, message or timestamps: only the
\* storage reference of a Job may change, to NULL; and a job listing answered
\* afterwards returns every Job of the ledger (the ledger being within the
\* limit of the listing), those of a deleted storage too.
C26_DeleteKeepsJobs ==
  [][/\ \A j \in DOMAIN jobs :
          /\ j \in DOMAIN jobs'
          /\ [jobs'[j] EXCEPT !.storage = None] = [jobs[j] EXCEPT !.storage = None]
          /\ jobs'[j].storage \in {jobs[j].storage, None}
     /\ (db'.last.op = "GetSyncJobs" /\ db'.last.code = 200
           /\ Cardinality(DOMAIN jobs') <= ListLimit) =>
          \A j \in DOMAIN jobs :
            j \in DOMAIN db'.listing /\ db'.listing[j] = jobs'[j]]_vars

C26_Witness ==
  /\ db.last.op = "GetSyncJobs"
  /\ db.last.code = 200
  /\ 1 \notin DOMAIN storages
  /\ \E j \in DOMAIN db.listing :
       db.listing[j].storage = None /\ db.listing[j].status = "completed"

\* C27: deleting a storage deletes its config with it: every row of the two
\* config tables belongs to a storage of the storage table.
C27_DeleteCascadesConfig ==
  /\ \A c \in DOMAIN db.webdav : db.webdav[c].storage \in DOMAIN storages
  /\ \A c \in DOMAIN db.s3 : db.s3[c].storage \in DOMAIN storages

\* C28: after every create and update of a storage, accepted or rejected,
\* each stored storage has exactly one config and it is the one of its type;
\* a create or update that is rejected leaves the storage table and the
\* config tables as they were.
C28_OneConfigPerTarget ==
  [][/\ \A id \in DOMAIN storages' :
          /\ Cardinality(ConfigsOf(db'.webdav, id)) =
               IF storages'[id].type = "webdav" THEN 1 ELSE 0
          /\ Cardinality(ConfigsOf(db'.s3, id)) =
               IF storages'[id].type = "s3" THEN 1 ELSE 0
     /\ (db'.last.op \in {"CreateStorage", "UpdateStorage"} /\ db'.last.code # 200) =>
          /\ storages' = storages
          /\ [db' EXCEPT !.last = db.last] = db]_vars

\* C29: when the vault data directory does not exist, no archive is built and
\* no upload is attempted by sync_one or by any worker of sync_many; the
\* error of the build is the distinct "vaultwarden data path does not exist";
\* and the Job of a sync_one that ended at the check or at the build is failed.
C29_MissingDataPath ==
  bk.missing =>
    /\ \A p \in DOMAIN proc : proc[p].attempts = 0 /\ proc[p].builds = 0
    /\ \A p \in {"one", "many"} :
         (proc[p].pc \in {"done", "buildFailed"} /\ proc[p].err[1] # "") =>
           "vaultwarden data path does not exist" \in {proc[p].err[1], proc[p].err[2]}
    /\ (/\ proc["one"].pc = "done"
        /\ proc["one"].ret[1] \in {"failed to check existing backup",
                                   "failed to create backup"}) =>
         /\ proc["one"].job \in DOMAIN jobs
         /\ jobs[proc["one"].job].status = "failed"

\* C30: every archive name of a sync, the one sync_one looks for on the
\* remote, the one CreateBackup returns and the one uploaded under, is
\* vaultwarden-backup-<timestamp> with the suffix zip if and only if no
\* password is configured and the suffix enc if and only if one is.
C30_FilenameRule ==
  \A p \in {"one", "many"} \cup Workers :
    proc[p].filename # NoFile =>
      /\ proc[p].filename[1] = "vaultwarden-backup"
      /\ proc[p].filename[2] \in 0..MaxNow
      /\ proc[p].filename[3] = "zip" <=> config.password = ""
      /\ proc[p].filename[3] = "enc" <=> config.password # ""

\* C31: in every reachable state every Job has created_at <= started_at when
\* started_at is set, started_at <= completed_at when completed_at is set,
\* and no completed_at without a started_at.
C31_TimestampOrder ==
  \A id \in DOMAIN jobs :
    /\ jobs[id].started_at # None => jobs[id].created_at <= jobs[id].started_at
    /\ jobs[id].completed_at # None =>
         /\ jobs[id].started_at # None
         /\ jobs[id].started_at <= jobs[id].completed_at

C31_Witness ==
  \E id \in DOMAIN jobs :
    /\ id > batchSize
    /\ jobs[id].completed_at # None
    /\ jobs[id].created_at < jobs[id].started_at
    /\ jobs[id].started_at < jobs[id].completed_at

\* C34: started_at is recorded when a Job goes from pending to running and
\* keeps that value: no later step changes a started_at that is set.
C34_StartedAtKept ==
  [][\A id \in DOMAIN jobs :
       (id \in DOMAIN jobs' /\ jobs[id].started_at # None) =>
         jobs'[id].started_at = jobs[id].started_at]_vars

\* C32: when the context is cancelled while a retry loop is in its backoff
\* sleep, the next step of the loop returns the cancellation error (the timer
\* is not waited for) and no upload or download attempt is made after that.
C32_CancelDuringSleep ==
  [][/\ \A p \in Uploaders :
          /\ (proc[p].pc = "sleep" /\ cancelled[Ctx(p)] /\ proc'[p] # proc[p])
               => proc'[p] = [proc[p] EXCEPT !.pc = "uploadFailed",
                                             !.err = <<"context canceled", "">>]
          /\ proc[p].err[1] = "context canceled"
               => proc'[p].attempts = proc[p].attempts
     /\ (/\ proc["restore"].pc = "sleep" /\ cancelled["restore"]
         /\ proc'["restore"] # proc["restore"])
          => proc'["restore"] = [proc["restore"] EXCEPT
                                   !.pc = "done",
                                   !.ret = <<"context canceled", "">>]
     /\ proc["restore"].ret[1] = "context canceled"
          => proc'["restore"].attempts = proc["restore"].attempts]_vars

\* C32, its case: an upload loop that slept after a failed attempt has
\* returned the cancellation error with attempts left
C32_Witness ==
  \E p \in Uploaders :
    /\ cancelled[Ctx(p)]
    /\ proc[p].err[1] = "context canceled"
    /\ proc[p].attempts >= 1
    /\ proc[p].attempts <= config.maxRetries

\* C33: a retention pass deletes at most batchSize Jobs in one step; a pass
\* whose context is cancelled deletes nothing more and its next step, at the
\* head of the loop or in the pause, returns the cancellation error, after
\* which it does nothing; a deleted Job never comes back; and every pass that
\* was started terminates.
C33_BatchedCancellablePass ==
  /\ [][/\ Cardinality(DOMAIN jobs \ DOMAIN jobs') <= batchSize
        /\ DOMAIN jobs' \subseteq DOMAIN jobs
        /\ \A c \in Cleaners :
             /\ (cancelled[c] /\ clean'[c] # clean[c]) => jobs' = jobs
             /\ (/\ cancelled[c] /\ clean[c].pc \in {"query", "pause"}
                 /\ clean'[c] # clean[c])
                  => clean'[c] = [clean[c] EXCEPT !.pc = "done",
                                                  !.ret = "context canceled"]
             /\ clean[c].ret = "context canceled" => clean'[c] = clean[c]]_vars
  /\ \A c \in Cleaners : (clean[c].pc # "idle") ~> (clean[c].pc = "done")

\* C33, its case: a pass has deleted a full batch, was cancelled in its
\* pause and returned the cancellation error, with old Jobs still there
C33_Witness ==
  \E c \in Cleaners :
    /\ cancelled[c]
    /\ clean[c].pc = "done" /\ clean[c].ret = "context canceled"
    /\ clean[c].totalDeleted = batchSize
    /\ OlderThan(jobs, clean[c].cutoffTime) # {}

\* C35: the archive built from a data directory has one entry per regular
\* file and no other entry, and a symbolic link, a device node or a directory
\* under the data root never makes the build fail.
C35_OnlyRegularFiles ==
  /\ (bk.src = "build" /\ bk.pc = "built")
       => bk.blob = ZipOf(createZipArchive(bk.dir))
  /\ (bk.src = "build" /\ bk.pc = "done"
      /\ bk.err = "failed to create zip archive")
       => bk.cause = CreateBackupError(bk.missing)[2]

\* C36: when SyncToStorage has built an archive and an upload attempt
\* succeeds after at least one failed attempt, the object stored on the
\* target is the whole archive.
C36_RetrySendsWholeArchive ==
  (/\ proc["one"].pc = "complete"
   /\ reader["one"] # None
   /\ proc["one"].attempts >= 2)
    => /\ proc["one"].filename \in DOMAIN store[proc["one"].storageID]
       /\ store[proc["one"].storageID][proc["one"].filename] = Archive

\* C37: when SyncToStorage found the archive of the current second on the
\* target, it builds nothing, and once it has returned nil its Job is
\* completed with a message naming that file and the target still holds the
\* same archive under that name.
C37_ExistingBackupKept ==
  (/\ proc["one"].pc = "done" /\ proc["one"].ret[1] = "ok"
   /\ reader["one"] = None)
    => /\ proc["one"].builds = 0
       /\ proc["one"].job \in DOMAIN jobs
       /\ jobs[proc["one"].job].status = "completed"
       /\ jobs[proc["one"].job].message =
            <<"Backup uploaded successfully", proc["one"].filename>>
       /\ proc["one"].filename \in DOMAIN store[proc["one"].storageID]
       /\ store[proc["one"].storageID][proc["one"].filename] = Archive

\* C38: ConcurrentSyncToStorages terminates for every sync.concurrency of
\* the configuration (values <= 0 leave the default, so the semaphore has
\* room for at least one worker) and every target list: every worker gets
\* its slot of the semaphore, errChan never holds more errors than it has
\* room for, and the call returns.
C38_FanOutTerminates ==
  /\ [](ServiceConcurrency >= 1 /\ Len(fan.errChan) <= Len(fan.storageIDs))
  /\ \A w \in Workers : (proc[w].pc = "acquire") ~> (proc[w].pc = "exited")
  /\ <>(proc["many"].pc = "done")

\* C38, its case: with sync.concurrency <= 0 in the configuration a call over
\* NumTargets targets has returned after every worker reported an error
C38_Witness ==
  /\ config.concurrency <= 0
  /\ proc["many"].pc = "done"
  /\ Len(fan.storageIDs) = NumTargets
  /\ Len(fan.errChan) = NumTargets
  /\ \A w \in Workers : proc[w].pc = "exited"

====
